---------------------------- MODULE Spec2Model ----------------------------
(***************************************************************************)
(* A model of the GNS Proof-of-Trajectory engine:                          *)
(*   - the trajectory commands of tauri-plugin-gns (collect_breadcrumb,    *)
(*     publish_epoch) over the SQLite StorageManager and the relay client, *)
(*   - the Breadcrumb model's hash recomputation,                          *)
(*   - the desktop application's handle commands.                          *)
(* Text is modelled by TLA+ strings, Option<T> by a sequence of length 0   *)
(* (None) or 1 (Some), SHA-256 and Ed25519 by collision-free term          *)
(* constructors over the text they are applied to.                         *)
(***************************************************************************)
EXTENDS Integers, Sequences, FiniteSets, TLC

VARIABLES
    identities,     \* rows of table identities, in list_identities order
    breadcrumbs,    \* rows of table breadcrumbs, in insertion order
    epochs,         \* rows of table epochs
    clock,          \* Utc::now(), in milliseconds
    nextId,         \* supply of CryptoEngine::random_id values
    storageLock,    \* GnsState.storage: the tokio RwLock around StorageManager
    pc,             \* position of every running command invocation
    loc,            \* locals of every running command invocation
    ret,            \* the last value every invocation returned
    relayEpochs,    \* epochs the relay acknowledged, in arrival order
    stored,         \* number of breadcrumb rows found on disk at start
    appends,        \* collect_breadcrumb calls started in this run
    publishes,      \* publish_epoch calls started in this run
    chain,          \* the breadcrumb sequence handed to verify_chain
    verdict,        \* what verify_chain returned for it
    hasIdentity,    \* desktop IdentityManager: an identity has been generated
    cachedHandle,   \* desktop IdentityManager: the cached handle
    identityLock,   \* desktop AppState.identity: the tokio Mutex
    netReserved,    \* handles the network acknowledged a reservation of
    calls,          \* desktop command invocations started in this run
    dbCount,        \* desktop Database: rows count_breadcrumbs counts
    leaves,         \* the breadcrumbs handed to calculate_merkle_root
    root,           \* what calculate_merkle_root returned for them
    config,         \* GnsState.config: the handle thresholds of GnsConfig
    activeIdentity, \* GnsState.active_identity
    netClaimed,     \* <<handle, identity>> claims the network accepted
    resolverCalls,  \* resolver command invocations started in this run
    arg,            \* the argument a pure function is called with
    result,         \* what the function returned for it
    collectionActive, \* commands::trajectory::COLLECTION_ACTIVE
    identityCalls   \* import_identity and delete_identity calls started in this run

procVars == <<pc, loc, ret>>
pluginVars == <<identities, breadcrumbs, epochs, clock, nextId, storageLock,
                relayEpochs, stored, appends, publishes>>
verifyVars == <<chain, verdict>>
appVars == <<hasIdentity, cachedHandle, identityLock, netReserved, calls, dbCount>>
merkleVars == <<leaves, root>>
resolverVars == <<config, activeIdentity, netClaimed, resolverCalls>>
pureVars == <<arg, result>>
collectionVars == <<collectionActive>>
identityVars == <<identityCalls>>
vars == <<procVars, pluginVars, verifyVars, appVars, merkleVars, resolverVars,
         pureVars, collectionVars, identityVars>>

---------------------------------------------------------------------------
(* Bounds of the model *)

MaxAppends == 3
MaxPublishes == 2
MaxChain == 3
MaxCalls == 3
MaxLeaves == 5
MaxResolverCalls == 2

\* import_identity and delete_identity calls made in a run.
MaxIdentityCalls == 2

\* Sizes of the breadcrumb table found on disk when the plugin starts.
StoredCounts == {0, 98, 249}

\* Concurrently running command invocations (tokio tasks).
Procs == {"t1", "t2"}

\* Key pairs CryptoEngine::generate_keypair can return: <<public, secret>>.
KeyPairs == {<<"pk1", "sk1">>}

\* Key pairs of the exports a caller imports: <<public, secret>>.
ImportKeyPairs == KeyPairs \cup {<<"pk2", "sk2">>}

\* Coordinates a caller passes, with the H3 cell h3o maps each to
\* (<<>> when LatLng::new rejects the pair).
Coordinates == {[lat |-> 40, lng |-> -74, cell |-> <<"872a1072b">>],
                [lat |-> 51, lng |-> 0, cell |-> <<"87195da49">>],
                [lat |-> 91, lng |-> 0, cell |-> <<>>]}

---------------------------------------------------------------------------
(* Program constants *)

default_h3_resolution == 7
default_min_breadcrumbs_for_epoch == 100
MaxH3Resolution == 15
BlockDivisor == 10
SevenDaysMs == 604800000

---------------------------------------------------------------------------
(* Option<T> *)

None == <<>>
Some(x) == <<x>>
IsSome(o) == Len(o) = 1
Unwrap(o) == o[1]
UnwrapOr(o, d) == IF IsSome(o) THEN o[1] ELSE d

---------------------------------------------------------------------------
(* CryptoEngine and chrono *)

\* CryptoEngine::sha256: the hex digest of the bytes; collision-free.
Sha256(data) == "sha256(" \o data \o ")"

\* CryptoEngine::sign: Ed25519 signature of message under the secret key.
Sign(secret_key, message) == "sig(" \o secret_key \o "," \o message \o ")"

\* The secret key of a public key.
SecretOf(public_key) ==
    LET kp == CHOOSE k \in ImportKeyPairs : k[1] = public_key IN kp[2]

\* CryptoEngine::verify on well-formed hex input: the signature is the one
\* the key's owner produces for the message.
Verify(public_key, message, signature) ==
    /\ \E k \in KeyPairs : k[1] = public_key
    /\ signature = Sign(SecretOf(public_key), message)

\* DateTime::timestamp_millis, rendered by format!("{}").
TimestampMillis(t) == ToString(t)

\* DateTime::to_rfc3339.
ToRfc3339(t) == "rfc3339:" \o ToString(t) \o "ms+00:00"

\* DateTime::timestamp of a parsed RFC 3339 string: whole seconds.
TimestampSeconds(t) == ToString(t \div 1000)

\* Resolution::try_from(u8) succeeds for 0..=15.
ResolutionValid(r) == r \in 0..MaxH3Resolution

---------------------------------------------------------------------------
(* models::breadcrumb *)

\* A hash that leaves the predecessor out.
calculate_hash_no_prev(b) == Sha256(b.h3_index \o b.timestamp)

\* Breadcrumb::calculate_hash: SHA-256 over h3_index, timestamp and, when
\* present, prev_hash, fed to the hasher one after the other.
calculate_hash(b) ==
    Sha256(b.h3_index \o b.timestamp \o
           (IF IsSome(b.prev_hash) THEN Unwrap(b.prev_hash) ELSE ""))

\* Breadcrumb::verify_hash
verify_hash(b) == b.hash = calculate_hash(b)

---------------------------------------------------------------------------
(* core::storage *)

\* StorageManager::list_identities yields the rows as stored: default first.
ActiveIdentity(ids) ==
    IF \E i \in 1..Len(ids) : ids[i].is_default
    THEN Some(ids[CHOOSE i \in 1..Len(ids) : ids[i].is_default])
    ELSE IF Len(ids) > 0 THEN Some(ids[1]) ELSE None

\* A count that misses the newest row.
get_breadcrumb_count_short(rows, identity_pk) ==
    Cardinality({i \in 1..(Len(rows) - 1) : rows[i].identity_pk = identity_pk})

\* StorageManager::get_breadcrumb_count: SELECT COUNT(*) ... WHERE identity_pk
get_breadcrumb_count(rows, identity_pk) ==
    Cardinality({i \in 1..Len(rows) : rows[i].identity_pk = identity_pk})

\* StorageManager::save_breadcrumb: the INSERT, then the counter UPDATE.
save_breadcrumb_rows(rows, identity_pk, b) ==
    Append(rows, [b EXCEPT !.identity_pk = identity_pk])

\* A save that leaves the identity's counter as it was.
save_breadcrumb_identities_stale(ids, identity_pk) == ids

save_breadcrumb_identities(ids, identity_pk) ==
    [i \in 1..Len(ids) |->
        IF ids[i].public_key = identity_pk
        THEN [ids[i] EXCEPT !.breadcrumb_count = @ + 1]
        ELSE ids[i]]

\* StorageManager::save_identity followed by set_default_identity.
NewIdentityRow(kp, set_as_default) ==
    [public_key |-> kp[1], secret_key |-> kp[2], handle |-> None,
     is_default |-> set_as_default, trust_score |-> 0, breadcrumb_count |-> 0]

---------------------------------------------------------------------------
(* commands::trajectory helpers *)

\* get_last_breadcrumb_hash
get_last_breadcrumb_hash(rows, identity_pk) == None

\* get_last_epoch_hash
get_last_epoch_hash(rows, identity_pk) == None

\* The breadcrumb collect_breadcrumb builds at time t in cell `cell`.
NewBreadcrumb(id, identity_pk, cell, t, rows) ==
    LET prev_hash == UnwrapOr(get_last_breadcrumb_hash(rows, identity_pk), "genesis")
        hash == Sha256(cell \o "|" \o TimestampMillis(t) \o "|" \o prev_hash)
    IN  [id |-> id,
         identity_pk |-> identity_pk,
         h3_index |-> cell,
         h3_resolution |-> default_h3_resolution,
         timestamp |-> ToRfc3339(t),
         prev_hash |-> Some(prev_hash),
         hash |-> hash,
         signature |-> Sign(SecretOf(identity_pk), hash),
         published |-> FALSE]

\* The epoch header publish_epoch builds and signs at time t.
NewEpoch(identity_pk, breadcrumb_count, min_breadcrumbs, t, epochRows) ==
    LET epoch_index == breadcrumb_count \div min_breadcrumbs
        prev_epoch_hash == get_last_epoch_hash(epochRows, identity_pk)
        merkle_root == Sha256("epoch-" \o identity_pk \o "-" \o ToString(epoch_index))
        counted == breadcrumb_count \div BlockDivisor
        epoch_hash == Sha256(identity_pk \o "|" \o ToString(epoch_index) \o "|" \o
                             TimestampSeconds(t - SevenDaysMs) \o "|" \o
                             TimestampSeconds(t) \o "|" \o merkle_root \o "|" \o
                             UnwrapOr(prev_epoch_hash, "genesis"))
    IN  [identity |-> identity_pk,
         epoch_index |-> epoch_index,
         start_time |-> ToRfc3339(t - SevenDaysMs),
         end_time |-> ToRfc3339(t),
         merkle_root |-> merkle_root,
         block_count |-> IF counted > 1 THEN counted ELSE 1,
         prev_epoch_hash |-> prev_epoch_hash,
         signature |-> Sign(SecretOf(identity_pk), epoch_hash),
         epoch_hash |-> epoch_hash]

---------------------------------------------------------------------------
(* The state the plugin starts from *)

\* The cell of the i-th breadcrumb of an earlier run.
StoredCell(i) == IF i % 2 = 1 THEN "872a1072b" ELSE "87195da49"

\* A breadcrumb table written by n earlier collect_breadcrumb calls.
RECURSIVE StoredBreadcrumbs(_)
StoredBreadcrumbs(n) ==
    [i \in 1..n |-> NewBreadcrumb(i, "pk1", StoredCell(i), i, StoredBreadcrumbs(i - 1))]

NoLocals == [breadcrumb |-> None, epoch |-> None, coord |-> None, handle |-> None,
             requested |-> None, my_pk |-> None]
NoReturn == [op |-> "none", status |-> "none", breadcrumb |-> None, epoch |-> None,
             handle |-> None, network_reserved |-> FALSE, score |-> None,
             public_key |-> None, handle_claimed |-> FALSE]
Return(op, status) == [NoReturn EXCEPT !.op = op, !.status = status]

FreeLock == [writer |-> None, readers |-> {}]

\* The plugin's store as found on disk, holding n breadcrumbs.
PluginStart(n) ==
    /\ breadcrumbs = StoredBreadcrumbs(n)
    /\ identities = IF n = 0 THEN <<>>
                    ELSE <<[NewIdentityRow(<<"pk1", "sk1">>, TRUE)
                              EXCEPT !.breadcrumb_count = n]>>
    /\ clock = n
    /\ nextId = n + 1
    /\ stored = n
    /\ epochs = <<>>
    /\ storageLock = FreeLock
    /\ relayEpochs = <<>>
    /\ appends = 0
    /\ publishes = 0

\* No command is running.
ProcStart ==
    /\ pc = [p \in Procs |-> "idle"]
    /\ loc = [p \in Procs |-> NoLocals]
    /\ ret = [p \in Procs |-> NoReturn]

NoVerdict == [status |-> "none", index |-> None]

VerifyStart ==
    /\ chain = <<>>
    /\ verdict = NoVerdict

\* The desktop application after setup_app_state on a fresh install.
AppStart ==
    /\ hasIdentity = FALSE
    /\ cachedHandle = None
    /\ identityLock = None
    /\ netReserved = {}
    /\ calls = 0
    /\ dbCount = 0

\* calculate_merkle_root has not been called.
MerkleStart ==
    /\ leaves = <<>>
    /\ root = None

\* No pure function has been called, and collection is not active.
PureStart ==
    /\ arg = None
    /\ result = None

CollectionStart == collectionActive = FALSE

IdentityStart == identityCalls = 0

\* GnsConfig::default(): the handle thresholds.
DefaultConfig == [min_breadcrumbs_for_handle |-> 100, min_trust_score_for_handle |-> 20]

\* GnsConfig::development(): the handle thresholds.
DevelopmentConfig == [min_breadcrumbs_for_handle |-> 0, min_trust_score_for_handle |-> 0]

\* GnsState::new: no identity is active, and the network holds no claim.
ResolverStart(c) ==
    /\ config = c
    /\ activeIdentity = None
    /\ netClaimed = {}
    /\ resolverCalls = 0

Init ==
    /\ \E n \in StoredCounts : PluginStart(n)
    /\ ProcStart
    /\ VerifyStart
    /\ AppStart
    /\ MerkleStart
    /\ ResolverStart(DefaultConfig)
    /\ PureStart
    /\ CollectionStart
    /\ IdentityStart

---------------------------------------------------------------------------
(* tokio::sync::RwLock *)

CanWrite == storageLock.writer = None /\ storageLock.readers = {}
WriteLocked(p) == [writer |-> Some(p), readers |-> {}]

---------------------------------------------------------------------------
(* commands::identity::create_identity *)

create_identity(p) ==
    /\ pc[p] = "idle"
    /\ CanWrite
    /\ \E kp \in KeyPairs, set_as_default \in BOOLEAN :
        /\ \A i \in 1..Len(identities) : identities[i].public_key /= kp[1]
        /\ identities' = Append(identities, NewIdentityRow(kp, set_as_default))
        /\ activeIdentity' = IF set_as_default THEN Some(kp[1]) ELSE activeIdentity
    /\ ret' = [ret EXCEPT ![p] = Return("create_identity", "ok")]
    /\ UNCHANGED <<breadcrumbs, epochs, clock, nextId, storageLock, pc, loc,
                   relayEpochs, stored, appends, publishes>>
    /\ UNCHANGED <<verifyVars, appVars, merkleVars, config, netClaimed, resolverCalls, pureVars, collectionVars, identityVars>>

---------------------------------------------------------------------------
(* commands::trajectory::collect_breadcrumb *)

\* state.storage.write().await
collect_lock(p) ==
    /\ pc[p] = "idle"
    /\ appends < MaxAppends
    /\ CanWrite
    /\ \E c \in Coordinates : loc' = [loc EXCEPT ![p] = [NoLocals EXCEPT !.coord = Some(c)]]
    /\ storageLock' = WriteLocked(p)
    /\ pc' = [pc EXCEPT ![p] = "collect_locked"]
    /\ appends' = appends + 1
    /\ UNCHANGED <<identities, breadcrumbs, epochs, clock, nextId, ret,
                   relayEpochs, stored, publishes>>
    /\ UNCHANGED <<verifyVars, appVars, merkleVars, resolverVars, pureVars, collectionVars, identityVars>>

\* From the identity lookup to the signed Breadcrumb value.
collect_build(p) ==
    /\ pc[p] = "collect_locked"
    /\ LET identity == ActiveIdentity(identities)
           coord == Unwrap(loc[p].coord)
       IN  IF ~IsSome(identity)
           THEN /\ ret' = [ret EXCEPT ![p] = Return("collect_breadcrumb", "IdentityNotFound")]
                /\ pc' = [pc EXCEPT ![p] = "idle"]
                /\ loc' = [loc EXCEPT ![p] = NoLocals]
                /\ storageLock' = FreeLock
                /\ UNCHANGED <<clock, nextId>>
           ELSE IF ~ResolutionValid(default_h3_resolution) \/ ~IsSome(coord.cell)
           THEN /\ ret' = [ret EXCEPT ![p] = Return("collect_breadcrumb", "InvalidInput")]
                /\ pc' = [pc EXCEPT ![p] = "idle"]
                /\ loc' = [loc EXCEPT ![p] = NoLocals]
                /\ storageLock' = FreeLock
                /\ UNCHANGED <<clock, nextId>>
           ELSE /\ clock' = clock + 1
                /\ nextId' = nextId + 1
                /\ loc' = [loc EXCEPT ![p].breadcrumb =
                              Some(NewBreadcrumb(nextId, Unwrap(identity).public_key,
                                                 Unwrap(coord.cell), clock', breadcrumbs))]
                /\ pc' = [pc EXCEPT ![p] = "collect_built"]
                /\ UNCHANGED <<ret, storageLock>>
    /\ UNCHANGED <<identities, breadcrumbs, epochs, relayEpochs, stored, appends, publishes>>
    /\ UNCHANGED <<verifyVars, appVars, merkleVars, resolverVars, pureVars, collectionVars, identityVars>>

\* storage.save_breadcrumb, then the guard is dropped on return.
collect_save(p) ==
    /\ pc[p] = "collect_built"
    /\ LET b == Unwrap(loc[p].breadcrumb)
       IN  /\ breadcrumbs' = save_breadcrumb_rows(breadcrumbs, b.identity_pk, b)
           /\ identities' = save_breadcrumb_identities(identities, b.identity_pk)
           /\ ret' = [ret EXCEPT ![p] = [Return("collect_breadcrumb", "ok")
                                           EXCEPT !.breadcrumb = Some(b)]]
    /\ pc' = [pc EXCEPT ![p] = "idle"]
    /\ loc' = [loc EXCEPT ![p] = NoLocals]
    /\ storageLock' = FreeLock
    /\ UNCHANGED <<epochs, clock, nextId, relayEpochs, stored, appends, publishes>>
    /\ UNCHANGED <<verifyVars, appVars, merkleVars, resolverVars, pureVars, collectionVars, identityVars>>

---------------------------------------------------------------------------
(* commands::trajectory::publish_epoch *)

\* state.storage.write().await
publish_lock(p) ==
    /\ pc[p] = "idle"
    /\ publishes < MaxPublishes
    /\ CanWrite
    /\ storageLock' = WriteLocked(p)
    /\ pc' = [pc EXCEPT ![p] = "publish_locked"]
    /\ loc' = [loc EXCEPT ![p] = NoLocals]
    /\ publishes' = publishes + 1
    /\ UNCHANGED <<identities, breadcrumbs, epochs, clock, nextId, ret,
                   relayEpochs, stored, appends>>
    /\ UNCHANGED <<verifyVars, appVars, merkleVars, resolverVars, pureVars, collectionVars, identityVars>>

\* A publish that persists a half-built header before it fails the gate.
publish_build_partial(p) ==
    /\ pc[p] = "publish_locked"
    /\ LET identity == ActiveIdentity(identities)
       IN  IF ~IsSome(identity)
           THEN /\ ret' = [ret EXCEPT ![p] = Return("publish_epoch", "IdentityNotFound")]
                /\ pc' = [pc EXCEPT ![p] = "idle"]
                /\ storageLock' = FreeLock
                /\ UNCHANGED <<loc, epochs>>
           ELSE LET pk == Unwrap(identity).public_key
                    breadcrumb_count == get_breadcrumb_count(breadcrumbs, pk)
                IN  IF breadcrumb_count < default_min_breadcrumbs_for_epoch
                    THEN /\ ret' = [ret EXCEPT ![p] =
                                      Return("publish_epoch", "InsufficientBreadcrumbs")]
                         /\ pc' = [pc EXCEPT ![p] = "idle"]
                         /\ storageLock' = FreeLock
                         /\ epochs' = Append(epochs,
                                             NewEpoch(pk, breadcrumb_count,
                                                      default_min_breadcrumbs_for_epoch,
                                                      clock, epochs))
                         /\ UNCHANGED loc
                    ELSE /\ loc' = [loc EXCEPT ![p].epoch =
                                      Some(NewEpoch(pk, breadcrumb_count,
                                                    default_min_breadcrumbs_for_epoch,
                                                    clock, epochs))]
                         /\ pc' = [pc EXCEPT ![p] = "publish_net"]
                         /\ UNCHANGED <<ret, storageLock, epochs>>
    /\ UNCHANGED <<identities, breadcrumbs, clock, nextId, relayEpochs,
                   stored, appends, publishes>>
    /\ UNCHANGED <<verifyVars, appVars, merkleVars, resolverVars, pureVars, collectionVars, identityVars>>

\* From the identity lookup to the signed epoch header.
publish_build(p) ==
    /\ pc[p] = "publish_locked"
    /\ LET identity == ActiveIdentity(identities)
       IN  IF ~IsSome(identity)
           THEN /\ ret' = [ret EXCEPT ![p] = Return("publish_epoch", "IdentityNotFound")]
                /\ pc' = [pc EXCEPT ![p] = "idle"]
                /\ storageLock' = FreeLock
                /\ UNCHANGED loc
           ELSE LET pk == Unwrap(identity).public_key
                    breadcrumb_count == get_breadcrumb_count(breadcrumbs, pk)
                IN  IF breadcrumb_count < default_min_breadcrumbs_for_epoch
                    THEN /\ ret' = [ret EXCEPT ![p] =
                                      Return("publish_epoch", "InsufficientBreadcrumbs")]
                         /\ pc' = [pc EXCEPT ![p] = "idle"]
                         /\ storageLock' = FreeLock
                         /\ UNCHANGED loc
                    ELSE /\ loc' = [loc EXCEPT ![p].epoch =
                                      Some(NewEpoch(pk, breadcrumb_count,
                                                    default_min_breadcrumbs_for_epoch,
                                                    clock, epochs))]
                         /\ pc' = [pc EXCEPT ![p] = "publish_net"]
                         /\ UNCHANGED <<ret, storageLock>>
    /\ UNCHANGED <<identities, breadcrumbs, epochs, clock, nextId, relayEpochs,
                   stored, appends, publishes>>
    /\ UNCHANGED <<verifyVars, appVars, merkleVars, resolverVars, pureVars, collectionVars, identityVars>>

\* network.publish_epoch(..).await answered with a success status.
publish_net_ok(p) ==
    /\ pc[p] = "publish_net"
    /\ relayEpochs' = Append(relayEpochs, Unwrap(loc[p].epoch))
    /\ ret' = [ret EXCEPT ![p] = [Return("publish_epoch", "ok")
                                    EXCEPT !.epoch = loc[p].epoch]]
    /\ pc' = [pc EXCEPT ![p] = "idle"]
    /\ loc' = [loc EXCEPT ![p] = NoLocals]
    /\ storageLock' = FreeLock
    /\ UNCHANGED <<identities, breadcrumbs, epochs, clock, nextId, stored, appends,
                   publishes>>
    /\ UNCHANGED <<verifyVars, appVars, merkleVars, resolverVars, pureVars, collectionVars, identityVars>>

\* network.publish_epoch(..).await failed: transport error, timeout or an
\* error status; `?` returns Error::Network.
publish_net_err(p) ==
    /\ pc[p] = "publish_net"
    /\ ret' = [ret EXCEPT ![p] = [Return("publish_epoch", "Network")
                                    EXCEPT !.epoch = loc[p].epoch]]
    /\ pc' = [pc EXCEPT ![p] = "idle"]
    /\ loc' = [loc EXCEPT ![p] = NoLocals]
    /\ storageLock' = FreeLock
    /\ UNCHANGED <<identities, breadcrumbs, epochs, clock, nextId, relayEpochs,
                   stored, appends, publishes>>
    /\ UNCHANGED <<verifyVars, appVars, merkleVars, resolverVars, pureVars, collectionVars, identityVars>>

---------------------------------------------------------------------------

Next ==
    \E p \in Procs :
        \/ create_identity(p)
        \/ collect_lock(p)
        \/ collect_build(p)
        \/ collect_save(p)
        \/ publish_lock(p)
        \/ publish_build(p)
        \/ publish_net_ok(p)
        \/ publish_net_err(p)

Spec == Init /\ [][Next]_vars

---------------------------------------------------------------------------
(* commands::trust::get_trust_score *)

\* Scores are kept in fixed point: one point of a component is Scale units,
\* which holds every value the f32 arithmetic below produces for the counts
\* used here without rounding.
Scale == 1200

\* The weights of the components, in hundredths.
WeightScale == 100

Min(a, b) == IF a <= b THEN a ELSE b

\* (breadcrumb_count as f32 * 0.3).min(1000.0) as u32
estimated_unique_locations(breadcrumb_count) == Min((breadcrumb_count * 3) \div 10, 1000)

\* A trajectory quality that goes below zero for sparse trajectories.
calculate_trajectory_quality_signed(breadcrumb_count, account_age_days) ==
    (breadcrumb_count - 1000) * Scale

calculate_trajectory_quality(breadcrumb_count, account_age_days) ==
    IF account_age_days = 0 THEN 0
    ELSE LET expected == account_age_days * 10
             ratio == Min((breadcrumb_count * Scale) \div expected, 2 * Scale)
         IN  Min(ratio * 50, 100 * Scale)

calculate_temporal_consistency(breadcrumb_count, account_age_days) ==
    IF account_age_days < 7
    THEN Min((breadcrumb_count * Scale) \div 10, 30 * Scale)
    ELSE IF breadcrumb_count >= 5 * account_age_days THEN 100 * Scale
    ELSE IF breadcrumb_count >= 2 * account_age_days THEN 80 * Scale
    ELSE IF breadcrumb_count >= account_age_days THEN 60 * Scale
    ELSE IF 2 * breadcrumb_count >= account_age_days THEN 40 * Scale
    ELSE 20 * Scale

calculate_geographic_diversity(unique_locations) ==
    IF unique_locations <= 5 THEN unique_locations * 5 * Scale
    ELSE IF unique_locations <= 20 THEN 25 * Scale + (unique_locations - 5) * ((5 * Scale) \div 2)
    ELSE IF unique_locations <= 50 THEN ((125 * Scale) \div 2) + (unique_locations - 20) * Scale
    ELSE IF unique_locations <= 100
    THEN ((185 * Scale) \div 2) + (unique_locations - 50) * ((15 * Scale) \div 100)
    ELSE 100 * Scale

\* TrustTier::from_score
from_score(score) ==
    LET whole == score \div (Scale * WeightScale)
    IN  IF whole <= 19 THEN "Seedling"
        ELSE IF whole <= 39 THEN "Rooted"
        ELSE IF whole <= 59 THEN "Established"
        ELSE IF whole <= 79 THEN "Trusted"
        ELSE "Verified"

\* let account_age_days = 30u32
placeholder_account_age_days == 30

\* The weighted sum of the components, capped at 100 points.
calculated_score(c) ==
    Min(c.trajectory_quality * 25 + c.temporal_consistency * 20 + c.chain_integrity * 25
          + c.epoch_reliability * 15 + c.geographic_diversity * 15,
        100 * Scale * WeightScale)

\* The TrustScore get_trust_score builds from an identity row.
TrustScoreOf(identity) ==
    LET breadcrumb_count == identity.breadcrumb_count
        account_age_days == placeholder_account_age_days
        unique_locations == estimated_unique_locations(breadcrumb_count)
        estimated_epoch_count == breadcrumb_count \div 100
        components ==
            [trajectory_quality |->
                 calculate_trajectory_quality(breadcrumb_count, account_age_days),
             temporal_consistency |->
                 calculate_temporal_consistency(breadcrumb_count, account_age_days),
             chain_integrity |-> 100 * Scale,
             epoch_reliability |-> IF estimated_epoch_count > 0 THEN 80 * Scale ELSE 0,
             geographic_diversity |-> calculate_geographic_diversity(unique_locations)]
        final_score == IF identity.trust_score > 0
                       THEN identity.trust_score * Scale * WeightScale
                       ELSE calculated_score(components)
    IN  [score |-> final_score,
         tier |-> from_score(final_score),
         components |-> components,
         breadcrumb_count |-> breadcrumb_count,
         account_age_days |-> account_age_days,
         unique_locations |-> unique_locations,
         epoch_count |-> estimated_epoch_count]

get_trust_score(p) ==
    /\ pc[p] = "idle"
    /\ storageLock.writer = None
    /\ IF ActiveIdentity(identities) = None
       THEN ret' = [ret EXCEPT ![p] = Return("get_trust_score", "IdentityNotFound")]
       ELSE ret' = [ret EXCEPT ![p] =
                [Return("get_trust_score", "ok") EXCEPT
                    !.score = Some(TrustScoreOf(Unwrap(ActiveIdentity(identities))))]]
    /\ UNCHANGED <<pc, loc>>
    /\ UNCHANGED <<pluginVars, verifyVars, appVars, merkleVars, resolverVars, pureVars, collectionVars, identityVars>>

NextTrust ==
    \E p \in Procs :
        \/ create_identity(p)
        \/ collect_lock(p)
        \/ collect_build(p)
        \/ collect_save(p)
        \/ publish_lock(p)
        \/ publish_build(p)
        \/ publish_net_ok(p)
        \/ publish_net_err(p)
        \/ get_trust_score(p)

\* Numbers of breadcrumb rows the trust score is read over at start.
TrustStoredCounts == {0, 98}

InitTrust ==
    /\ \E n \in TrustStoredCounts : PluginStart(n)
    /\ ProcStart
    /\ VerifyStart
    /\ AppStart
    /\ MerkleStart
    /\ ResolverStart(DefaultConfig)
    /\ PureStart
    /\ CollectionStart
    /\ IdentityStart

SpecTrust == InitTrust /\ [][NextTrust]_vars

---------------------------------------------------------------------------
(* verify_chain: chain verification over an ordered breadcrumb sequence *)

\* A breadcrumb whose hash and signature are set from its own fields, as
\* test_breadcrumb_hash sets them.
SealedBreadcrumb(id, identity_pk, cell, t, prev_hash) ==
    LET b == [id |-> id,
              identity_pk |-> identity_pk,
              h3_index |-> cell,
              h3_resolution |-> default_h3_resolution,
              timestamp |-> ToRfc3339(t),
              prev_hash |-> prev_hash,
              hash |-> "",
              signature |-> "",
              published |-> FALSE]
        hash == calculate_hash(b)
    IN  [b EXCEPT !.hash = hash, !.signature = Sign(SecretOf(identity_pk), hash)]

\* What can be wrong with an element of the sequence handed in.
Defects == {"none", "cell", "timestamp", "prev_hash", "hash", "signature", "unlinked"}

\* The element a caller adds behind `seq`: sealed over the head of seq (or
\* over an unrelated hash), then changed in one field.
ChainInput(seq, cell, defect) ==
    LET head == IF Len(seq) = 0 THEN None ELSE Some(seq[Len(seq)].hash)
        b == SealedBreadcrumb(Len(seq) + 1, "pk1", cell, Len(seq) + 1,
                              IF defect = "unlinked" THEN Some("sha256(elsewhere)")
                              ELSE head)
    IN  CASE defect = "cell" -> [b EXCEPT !.h3_index = "87ffffffff"]
          [] defect = "timestamp" -> [b EXCEPT !.timestamp = ToRfc3339(0)]
          [] defect = "prev_hash" -> [b EXCEPT !.prev_hash = Some("sha256(forged)")]
          [] defect = "hash" -> [b EXCEPT !.hash = "sha256(forged)"]
          [] defect = "signature" -> [b EXCEPT !.signature = "sig(sk9," \o b.hash \o ")"]
          [] OTHER -> b

\* verify_chain: walks the sequence; an element is valid when its hash is
\* the recomputation from its fields, its prev_hash is its predecessor's
\* hash (None for the first) and its signature verifies under the key.
\* Returns the index of the first invalid element.
RECURSIVE verify_chain_from(_, _, _)
verify_chain_from(seq, public_key, i) ==
    IF i > Len(seq) THEN [status |-> "ok", index |-> None]
    ELSE IF \/ ~verify_hash(seq[i])
            \/ seq[i].prev_hash /= (IF i = 1 THEN None ELSE Some(seq[i - 1].hash))
            \/ ~Verify(public_key, seq[i].hash, seq[i].signature)
         THEN [status |-> "invalid", index |-> Some(i - 1)]
         ELSE verify_chain_from(seq, public_key, i + 1)

verify_chain(seq, public_key) == verify_chain_from(seq, public_key, 1)

\* A caller extends the sequence it is about to verify.
verify_input ==
    /\ Len(chain) < MaxChain
    /\ \E c \in Coordinates, d \in Defects :
        /\ IsSome(c.cell)
        /\ chain' = Append(chain, ChainInput(chain, Unwrap(c.cell), d))
    /\ verdict' = NoVerdict
    /\ UNCHANGED <<procVars, pluginVars, appVars, merkleVars, resolverVars, pureVars, collectionVars, identityVars>>

\* The caller runs verify_chain on the sequence.
verify_run ==
    /\ verdict = NoVerdict
    /\ verdict' = verify_chain(chain, "pk1")
    /\ UNCHANGED <<chain, procVars, pluginVars, appVars, merkleVars, resolverVars, pureVars, collectionVars, identityVars>>

InitVerify ==
    /\ PluginStart(0)
    /\ ProcStart
    /\ VerifyStart
    /\ AppStart
    /\ MerkleStart
    /\ ResolverStart(DefaultConfig)
    /\ PureStart
    /\ CollectionStart
    /\ IdentityStart

NextVerify == verify_input \/ verify_run

SpecVerify == InitVerify /\ [][NextVerify]_vars

---------------------------------------------------------------------------
(* models::breadcrumb: BreadcrumbBlock::calculate_merkle_root *)

\* "0".repeat(64)
ZeroRoot == "0000000000000000000000000000000000000000000000000000000000000000"

\* One pass of the while loop: hashes.chunks(2), each chunk fed to one
\* hasher; a last chunk of one element is hashed alone.
merkle_level(hashes) ==
    [k \in 1..((Len(hashes) + 1) \div 2) |->
        IF 2 * k <= Len(hashes)
        THEN Sha256(hashes[2 * k - 1] \o hashes[2 * k])
        ELSE Sha256(hashes[2 * k - 1])]

\* while hashes.len() > 1 { ... }; hashes.pop()
RECURSIVE merkle_reduce(_)
merkle_reduce(hashes) ==
    IF Len(hashes) = 0 THEN ZeroRoot
    ELSE IF Len(hashes) = 1 THEN hashes[1]
    ELSE merkle_reduce(merkle_level(hashes))

\* BreadcrumbBlock::calculate_merkle_root over the breadcrumbs' hash fields.
calculate_merkle_root(bs) ==
    IF Len(bs) = 0 THEN ZeroRoot
    ELSE merkle_reduce([i \in 1..Len(bs) |-> bs[i].hash])

\* Hash fields of the breadcrumbs a caller passes, as test_merkle_root
\* passes breadcrumbs with set hash fields.
LeafHashes == {"a", "b", "c"}

\* A caller adds a breadcrumb to the slice it is about to pass.
merkle_input ==
    /\ Len(leaves) < MaxLeaves
    /\ \E h \in LeafHashes :
        leaves' = Append(leaves, [SealedBreadcrumb(Len(leaves) + 1, "pk1", "872a1072b",
                                                   Len(leaves) + 1, None)
                                    EXCEPT !.hash = h])
    /\ root' = None
    /\ UNCHANGED <<procVars, pluginVars, verifyVars, appVars, resolverVars, pureVars, collectionVars, identityVars>>

\* The caller runs calculate_merkle_root on the slice.
merkle_run ==
    /\ root = None
    /\ root' = Some(calculate_merkle_root(leaves))
    /\ UNCHANGED <<leaves, procVars, pluginVars, verifyVars, appVars, resolverVars, pureVars, collectionVars, identityVars>>

InitMerkle ==
    /\ PluginStart(0)
    /\ ProcStart
    /\ VerifyStart
    /\ AppStart
    /\ MerkleStart
    /\ ResolverStart(DefaultConfig)
    /\ PureStart
    /\ CollectionStart
    /\ IdentityStart

NextMerkle == merkle_input \/ merkle_run

SpecMerkle == InitMerkle /\ [][NextMerkle]_vars

---------------------------------------------------------------------------
(* Desktop application: commands::handles::validate_handle *)

\* Handles a caller passes, as sequences of characters.
HandleInputs == {<<"a", "l", "i", "c", "e">>,
                 <<"@", "B", "o", "b">>,
                 <<" ", "b", "o", "b", " ">>,
                 <<"a", "b">>,
                 <<"a", "p", "i">>,
                 <<"b", "o", "-", "b">>,
                 <<"@">>,
                 [i \in 1..21 |-> "a"]}

\* char::to_lowercase on the characters used here.
LowerChar(c) ==
    CASE c = "A" -> "a" [] c = "B" -> "b" [] c = "O" -> "o" [] OTHER -> c

to_lowercase(s) == [i \in 1..Len(s) |-> LowerChar(s[i])]

\* str::trim: drops leading and trailing white space.
RECURSIVE trim(_)
trim(s) ==
    IF Len(s) = 0 THEN s
    ELSE IF s[1] = " " THEN trim(Tail(s))
    ELSE IF s[Len(s)] = " " THEN trim(SubSeq(s, 1, Len(s) - 1))
    ELSE s

\* str::replace('@', "")
strip_markers(s) == SelectSeq(s, LAMBDA c : c /= "@")

\* The characters HANDLE_REGEX admits.
HandleAlphabet ==
    {"a", "b", "c", "d", "e", "f", "g", "h", "i", "j", "k", "l", "m", "n", "o",
     "p", "q", "r", "s", "t", "u", "v", "w", "x", "y", "z", "0", "1", "2", "3",
     "4", "5", "6", "7", "8", "9", "_"}

HandleMinLen == 3
HandleMaxLen == 20

RESERVED_HANDLES ==
    {<<"a", "d", "m", "i", "n">>, <<"r", "o", "o", "t">>,
     <<"s", "y", "s", "t", "e", "m">>, <<"g", "n", "s">>,
     <<"l", "a", "y", "e", "r">>, <<"b", "r", "o", "w", "s", "e", "r">>,
     <<"s", "u", "p", "p", "o", "r", "t">>, <<"h", "e", "l", "p">>,
     <<"o", "f", "f", "i", "c", "i", "a", "l">>,
     <<"v", "e", "r", "i", "f", "i", "e", "d">>, <<"e", "c", "h", "o">>,
     <<"b", "o", "t">>, <<"a", "p", "i">>, <<"w", "w", "w">>, <<"a", "p", "p">>,
     <<"m", "a", "i", "l">>, <<"f", "t", "p">>, <<"s", "s", "h">>,
     <<"l", "o", "c", "a", "l", "h", "o", "s", "t">>}

\* validate_handle: Ok(clean) or the HandleError.
validate_handle(handle) ==
    LET clean == strip_markers(to_lowercase(trim(handle)))
    IN  IF Len(clean) = 0 THEN [ok |-> FALSE, clean |-> clean, error |-> "Empty"]
        ELSE IF Len(clean) < HandleMinLen
        THEN [ok |-> FALSE, clean |-> clean, error |-> "TooShort"]
        ELSE IF Len(clean) > HandleMaxLen
        THEN [ok |-> FALSE, clean |-> clean, error |-> "TooLong"]
        ELSE IF \E i \in 1..Len(clean) : clean[i] \notin HandleAlphabet
        THEN [ok |-> FALSE, clean |-> clean, error |-> "InvalidCharacters"]
        ELSE IF clean \in RESERVED_HANDLES
        THEN [ok |-> FALSE, clean |-> clean, error |-> "Reserved"]
        ELSE [ok |-> TRUE, clean |-> clean, error |-> ""]

---------------------------------------------------------------------------
(* Desktop application: commands_handle::reserve_handle *)

\* validate_handle at the head of a command.
reserve_validate(p) ==
    /\ pc[p] = "idle"
    /\ calls < MaxCalls
    /\ calls' = calls + 1
    /\ \E h \in HandleInputs :
        LET v == validate_handle(h)
        IN  IF v.ok
            THEN /\ pc' = [pc EXCEPT ![p] = "reserve_validated"]
                 /\ loc' = [loc EXCEPT ![p] = [NoLocals EXCEPT !.handle = Some(v.clean)]]
                 /\ UNCHANGED ret
            ELSE /\ ret' = [ret EXCEPT ![p] = Return("reserve_handle", v.error)]
                 /\ UNCHANGED <<pc, loc>>
    /\ UNCHANGED <<hasIdentity, cachedHandle, identityLock, netReserved, dbCount>>
    /\ UNCHANGED <<pluginVars, verifyVars, merkleVars, resolverVars, pureVars, collectionVars, identityVars>>

\* state.identity.lock().await, the identity check and the signature; the
\* guard is dropped before the network call.
reserve_sign(p) ==
    /\ pc[p] = "reserve_validated"
    /\ identityLock = None
    /\ IF ~hasIdentity
       THEN /\ ret' = [ret EXCEPT ![p] = Return("reserve_handle", "NoIdentity")]
            /\ pc' = [pc EXCEPT ![p] = "idle"]
            /\ loc' = [loc EXCEPT ![p] = NoLocals]
       ELSE /\ pc' = [pc EXCEPT ![p] = "reserve_net"]
            /\ UNCHANGED <<ret, loc>>
    /\ UNCHANGED appVars
    /\ UNCHANGED <<pluginVars, verifyVars, merkleVars, resolverVars, pureVars, collectionVars, identityVars>>

\* api.reserve_handle(..).await answered Ok(result) with result.success.
reserve_net_ok(p) ==
    /\ pc[p] = "reserve_net"
    /\ netReserved' = netReserved \cup {Unwrap(loc[p].handle)}
    /\ pc' = [pc EXCEPT ![p] = "reserve_store"]
    /\ UNCHANGED <<ret, loc, hasIdentity, cachedHandle, identityLock, calls, dbCount>>
    /\ UNCHANGED <<pluginVars, verifyVars, merkleVars, resolverVars, pureVars, collectionVars, identityVars>>

\* api.reserve_handle(..).await answered Ok(result) without success, or Err.
reserve_net_fail(p) ==
    /\ pc[p] = "reserve_net"
    /\ \E status \in {"rejected", "NetworkError"} :
        ret' = [ret EXCEPT ![p] = [Return("reserve_handle", status)
                                     EXCEPT !.handle = loc[p].handle]]
    /\ pc' = [pc EXCEPT ![p] = "idle"]
    /\ loc' = [loc EXCEPT ![p] = NoLocals]
    /\ UNCHANGED appVars
    /\ UNCHANGED <<pluginVars, verifyVars, merkleVars, resolverVars, pureVars, collectionVars, identityVars>>

\* state.identity.lock().await again, then set_cached_handle.
reserve_store(p) ==
    /\ pc[p] = "reserve_store"
    /\ identityLock = None
    /\ cachedHandle' = loc[p].handle
    /\ ret' = [ret EXCEPT ![p] = [Return("reserve_handle", "ok")
                                     EXCEPT !.handle = loc[p].handle,
                                            !.network_reserved = TRUE]]
    /\ pc' = [pc EXCEPT ![p] = "idle"]
    /\ loc' = [loc EXCEPT ![p] = NoLocals]
    /\ UNCHANGED <<hasIdentity, identityLock, netReserved, calls, dbCount>>
    /\ UNCHANGED <<pluginVars, verifyVars, merkleVars, resolverVars, pureVars, collectionVars, identityVars>>

---------------------------------------------------------------------------
(* Desktop application: commands_handle::create_identity_with_handle *)

\* Step 1: validate_handle.
create_validate(p) ==
    /\ pc[p] = "idle"
    /\ calls < MaxCalls
    /\ calls' = calls + 1
    /\ \E h \in HandleInputs :
        LET v == validate_handle(h)
        IN  IF v.ok
            THEN /\ pc' = [pc EXCEPT ![p] = "create_validated"]
                 /\ loc' = [loc EXCEPT ![p] = [NoLocals EXCEPT !.handle = Some(v.clean)]]
                 /\ UNCHANGED ret
            ELSE /\ ret' = [ret EXCEPT ![p] = Return("create_identity_with_handle", v.error)]
                 /\ UNCHANGED <<pc, loc>>
    /\ UNCHANGED <<hasIdentity, cachedHandle, identityLock, netReserved, dbCount>>
    /\ UNCHANGED <<pluginVars, verifyVars, merkleVars, resolverVars, pureVars, collectionVars, identityVars>>

\* Step 2: the has_identity check inside its own lock scope.
create_check_existing(p) ==
    /\ pc[p] = "create_validated"
    /\ identityLock = None
    /\ IF hasIdentity
       THEN /\ ret' = [ret EXCEPT ![p] = Return("create_identity_with_handle", "IdentityExists")]
            /\ pc' = [pc EXCEPT ![p] = "idle"]
            /\ loc' = [loc EXCEPT ![p] = NoLocals]
       ELSE /\ pc' = [pc EXCEPT ![p] = "create_available"]
            /\ UNCHANGED <<ret, loc>>
    /\ UNCHANGED appVars
    /\ UNCHANGED <<pluginVars, verifyVars, merkleVars, resolverVars, pureVars, collectionVars, identityVars>>

\* Step 3: api.check_handle_available(..).await answered available.
create_available_ok(p) ==
    /\ pc[p] = "create_available"
    /\ pc' = [pc EXCEPT ![p] = "create_generate"]
    /\ UNCHANGED <<ret, loc>>
    /\ UNCHANGED appVars
    /\ UNCHANGED <<pluginVars, verifyVars, merkleVars, resolverVars, pureVars, collectionVars, identityVars>>

\* Step 3: the check failed or the handle is not available.
create_available_fail(p) ==
    /\ pc[p] = "create_available"
    /\ \E status \in {"NetworkError", "Unavailable"} :
        ret' = [ret EXCEPT ![p] = Return("create_identity_with_handle", status)]
    /\ pc' = [pc EXCEPT ![p] = "idle"]
    /\ loc' = [loc EXCEPT ![p] = NoLocals]
    /\ UNCHANGED appVars
    /\ UNCHANGED <<pluginVars, verifyVars, merkleVars, resolverVars, pureVars, collectionVars, identityVars>>

\* Steps 4 and 5: state.identity.lock().await, generate_new, the signature.
\* The guard lives to the end of the command.
create_generate(p) ==
    /\ pc[p] = "create_generate"
    /\ identityLock = None
    /\ identityLock' = Some(p)
    /\ hasIdentity' = TRUE
    /\ pc' = [pc EXCEPT ![p] = "create_reserve"]
    /\ UNCHANGED <<ret, loc, cachedHandle, netReserved, calls, dbCount>>
    /\ UNCHANGED <<pluginVars, verifyVars, merkleVars, resolverVars, pureVars, collectionVars, identityVars>>

\* Steps 6 and 7: api.reserve_handle(..).await returned; the handle is
\* cached whatever the answer.
create_reserve_reply(p) ==
    /\ pc[p] = "create_reserve"
    /\ cachedHandle' = loc[p].handle
    /\ \E network_reserved \in BOOLEAN :
        IF network_reserved
        THEN /\ netReserved' = netReserved \cup {Unwrap(loc[p].handle)}
             /\ pc' = [pc EXCEPT ![p] = "create_publish"]
             /\ UNCHANGED <<ret, loc, identityLock>>
        ELSE /\ ret' = [ret EXCEPT ![p] =
                              [Return("create_identity_with_handle", "ok")
                                 EXCEPT !.handle = loc[p].handle]]
             /\ pc' = [pc EXCEPT ![p] = "idle"]
             /\ loc' = [loc EXCEPT ![p] = NoLocals]
             /\ identityLock' = None
             /\ UNCHANGED netReserved
    /\ UNCHANGED <<hasIdentity, calls, dbCount>>
    /\ UNCHANGED <<pluginVars, verifyVars, merkleVars, resolverVars, pureVars, collectionVars, identityVars>>

\* Step 8: api.publish_signed_record(..).await returned; a failure is logged.
create_publish_reply(p) ==
    /\ pc[p] = "create_publish"
    /\ ret' = [ret EXCEPT ![p] = [Return("create_identity_with_handle", "ok")
                                     EXCEPT !.handle = loc[p].handle,
                                            !.network_reserved = TRUE]]
    /\ pc' = [pc EXCEPT ![p] = "idle"]
    /\ loc' = [loc EXCEPT ![p] = NoLocals]
    /\ identityLock' = None
    /\ UNCHANGED <<hasIdentity, cachedHandle, netReserved, calls, dbCount>>
    /\ UNCHANGED <<pluginVars, verifyVars, merkleVars, resolverVars, pureVars, collectionVars, identityVars>>

---------------------------------------------------------------------------
(* Desktop application: commands_handle::get_identity_info *)

\* The HandleStatus get_identity_info derives from the cached handle.
handle_status(cached_handle) ==
    IF IsSome(cached_handle) THEN "Reserved" ELSE "None"

get_identity_info(p) ==
    /\ pc[p] = "idle"
    /\ identityLock = None
    /\ ret' = [ret EXCEPT ![p] =
                 IF ~hasIdentity THEN Return("get_identity_info", "NoIdentity")
                 ELSE [Return("get_identity_info", handle_status(cachedHandle))
                         EXCEPT !.handle = cachedHandle,
                                !.network_reserved = IsSome(cachedHandle)]]
    /\ UNCHANGED <<pc, loc>>
    /\ UNCHANGED appVars
    /\ UNCHANGED <<pluginVars, verifyVars, merkleVars, resolverVars, pureVars, collectionVars, identityVars>>

---------------------------------------------------------------------------
(* Desktop application: commands::breadcrumbs::drop_breadcrumb *)

\* Takes the identity lock, then the database lock; saves one row.
drop_breadcrumb(p) ==
    /\ pc[p] = "idle"
    /\ calls < MaxCalls
    /\ calls' = calls + 1
    /\ identityLock = None
    /\ IF ~hasIdentity
       THEN /\ ret' = [ret EXCEPT ![p] = Return("drop_breadcrumb", "NoIdentity")]
            /\ UNCHANGED dbCount
       ELSE /\ dbCount' = dbCount + 1
            /\ ret' = [ret EXCEPT ![p] = Return("drop_breadcrumb", "ok")]
    /\ UNCHANGED <<pc, loc, hasIdentity, cachedHandle, identityLock, netReserved>>
    /\ UNCHANGED <<pluginVars, verifyVars, merkleVars, resolverVars, pureVars, collectionVars, identityVars>>

---------------------------------------------------------------------------
(* Desktop application: commands::breadcrumbs::get_breadcrumb_status *)

\* Takes the database lock for the count, then the identity lock for the
\* cached handle.
get_breadcrumb_status(p) ==
    /\ pc[p] = "idle"
    /\ identityLock = None
    /\ LET count == dbCount
           handle_claimed == IF IsSome(cachedHandle) THEN count >= 100 ELSE FALSE
       IN  ret' = [ret EXCEPT ![p] = [Return("get_breadcrumb_status", "ok")
                                        EXCEPT !.handle = cachedHandle,
                                               !.handle_claimed = handle_claimed]]
    /\ UNCHANGED <<pc, loc>>
    /\ UNCHANGED appVars
    /\ UNCHANGED <<pluginVars, verifyVars, merkleVars, resolverVars, pureVars, collectionVars, identityVars>>

---------------------------------------------------------------------------
(* Desktop application: commands_handle::claim_handle *)

\* str::trim_start_matches('@')
RECURSIVE trim_start_matches(_)
trim_start_matches(s) ==
    IF Len(s) > 0 /\ s[1] = "@" THEN trim_start_matches(Tail(s)) ELSE s

\* The normal form claim_handle compares handles in.
normalize_handle(h) == to_lowercase(trim_start_matches(h))

\* ClaimRequirements::new: the thresholds.
breadcrumbs_required == 100
trust_required == 20

\* The trust score claim_handle passes on.
claim_trust_score == 0

\* Requirements that leave the trust score out.
is_met_breadcrumbs_only(breadcrumbs_current, trust_current) ==
    breadcrumbs_current >= breadcrumbs_required

\* ClaimRequirements::is_met
is_met(breadcrumbs_current, trust_current) ==
    /\ breadcrumbs_current >= breadcrumbs_required
    /\ trust_current >= trust_required

\* Step 1: under the identity lock, the identity, the reserved handle and
\* the comparison with the requested handle.
claim_match(p) ==
    /\ pc[p] = "idle"
    /\ calls < MaxCalls
    /\ calls' = calls + 1
    /\ identityLock = None
    /\ \E h \in HandleInputs :
        IF ~hasIdentity
        THEN /\ ret' = [ret EXCEPT ![p] = Return("claim_handle", "NoIdentity")]
             /\ UNCHANGED <<pc, loc>>
        ELSE IF ~IsSome(cachedHandle)
        THEN /\ ret' = [ret EXCEPT ![p] = Return("claim_handle", "NoHandleReserved")]
             /\ UNCHANGED <<pc, loc>>
        ELSE IF normalize_handle(h) /= normalize_handle(Unwrap(cachedHandle))
        THEN /\ ret' = [ret EXCEPT ![p] = Return("claim_handle", "HandleMismatch")]
             /\ UNCHANGED <<pc, loc>>
        ELSE /\ pc' = [pc EXCEPT ![p] = "claim_matched"]
             /\ loc' = [loc EXCEPT ![p] = [NoLocals EXCEPT !.handle = cachedHandle,
                                                            !.requested = Some(h)]]
             /\ UNCHANGED ret
    /\ UNCHANGED <<hasIdentity, cachedHandle, identityLock, netReserved, dbCount>>
    /\ UNCHANGED <<pluginVars, verifyVars, merkleVars, resolverVars, pureVars, collectionVars, identityVars>>

\* Steps 2 and 3: under the database lock the breadcrumb count, then the
\* requirements; a claim that meets them goes on to be signed and sent.
claim_requirements(p) ==
    /\ pc[p] = "claim_matched"
    /\ IF is_met(dbCount, claim_trust_score)
       THEN /\ pc' = [pc EXCEPT ![p] = "claim_net"]
            /\ UNCHANGED <<ret, loc>>
       ELSE /\ ret' = [ret EXCEPT ![p] = [Return("claim_handle", "RequirementsNotMet")
                                            EXCEPT !.handle = loc[p].handle]]
            /\ pc' = [pc EXCEPT ![p] = "idle"]
            /\ loc' = [loc EXCEPT ![p] = NoLocals]
    /\ UNCHANGED appVars
    /\ UNCHANGED <<pluginVars, verifyVars, merkleVars, resolverVars, pureVars, collectionVars, identityVars>>

\* Sizes of the desktop breadcrumb database the model starts from.
AppStoredCounts == {0, 98}

\* The desktop application with an identity that reserved "alice" and has
\* dropped n breadcrumbs.
AppRunning(n) ==
    /\ hasIdentity = TRUE
    /\ cachedHandle = Some(<<"a", "l", "i", "c", "e">>)
    /\ identityLock = None
    /\ netReserved = {<<"a", "l", "i", "c", "e">>}
    /\ calls = 0
    /\ dbCount = n

InitApp ==
    /\ PluginStart(0)
    /\ ProcStart
    /\ VerifyStart
    /\ \E n \in AppStoredCounts : IF n = 0 THEN AppStart ELSE AppRunning(n)
    /\ MerkleStart
    /\ ResolverStart(DefaultConfig)
    /\ PureStart
    /\ CollectionStart
    /\ IdentityStart

NextApp ==
    \E p \in Procs :
        \/ reserve_validate(p)
        \/ reserve_sign(p)
        \/ reserve_net_ok(p)
        \/ reserve_net_fail(p)
        \/ reserve_store(p)
        \/ create_validate(p)
        \/ create_check_existing(p)
        \/ create_available_ok(p)
        \/ create_available_fail(p)
        \/ create_generate(p)
        \/ create_reserve_reply(p)
        \/ create_publish_reply(p)
        \/ get_identity_info(p)
        \/ get_breadcrumb_status(p)
        \/ drop_breadcrumb(p)
        \/ claim_match(p)
        \/ claim_requirements(p)

SpecApp == InitApp /\ [][NextApp]_vars

---------------------------------------------------------------------------
(* Plugin: commands::identity (load_identity, get_identity) *)

\* StorageManager::get_identity
storage_get_identity(ids, public_key) ==
    IF \E i \in 1..Len(ids) : ids[i].public_key = public_key
    THEN Some(ids[CHOOSE i \in 1..Len(ids) : ids[i].public_key = public_key])
    ELSE None

\* The public keys a caller passes.
PublicKeys == {kp[1] : kp \in KeyPairs}

load_identity(p) ==
    /\ pc[p] = "idle"
    /\ storageLock.writer = None
    /\ \E public_key \in PublicKeys :
        IF IsSome(storage_get_identity(identities, public_key))
        THEN /\ activeIdentity' = Some(public_key)
             /\ ret' = [ret EXCEPT ![p] = Return("load_identity", "ok")]
        ELSE /\ ret' = [ret EXCEPT ![p] = Return("load_identity", "IdentityNotFound")]
             /\ UNCHANGED activeIdentity
    /\ UNCHANGED <<pc, loc, config, netClaimed, resolverCalls>>
    /\ UNCHANGED <<pluginVars, verifyVars, appVars, merkleVars, pureVars, collectionVars, identityVars>>

\* get_identity(None): the active identity as storage holds it.
get_identity(p) ==
    /\ pc[p] = "idle"
    /\ storageLock.writer = None
    /\ IF IsSome(activeIdentity)
             /\ IsSome(storage_get_identity(identities, Unwrap(activeIdentity)))
       THEN ret' = [ret EXCEPT ![p] =
                [Return("get_identity", "ok") EXCEPT
                    !.handle = Unwrap(storage_get_identity(identities,
                                                           Unwrap(activeIdentity))).handle]]
       ELSE ret' = [ret EXCEPT ![p] = Return("get_identity", "none")]
    /\ UNCHANGED <<pc, loc>>
    /\ UNCHANGED <<pluginVars, verifyVars, appVars, merkleVars, resolverVars, pureVars, collectionVars, identityVars>>

---------------------------------------------------------------------------
(* Plugin: commands::resolver::claim_handle *)

\* models::record::RESERVED_HANDLES
record_RESERVED_HANDLES ==
    {<<"a", "d", "m", "i", "n">>, <<"r", "o", "o", "t">>,
     <<"s", "y", "s", "t", "e", "m">>, <<"g", "n", "s">>,
     <<"g", "c", "r", "u", "m", "b", "s">>,
     <<"s", "u", "p", "p", "o", "r", "t">>, <<"h", "e", "l", "p">>,
     <<"i", "n", "f", "o">>, <<"c", "o", "n", "t", "a", "c", "t">>,
     <<"n", "u", "l", "l">>, <<"u", "n", "d", "e", "f", "i", "n", "e", "d">>,
     <<"l", "o", "c", "a", "l", "h", "o", "s", "t">>, <<"a", "p", "i">>,
     <<"w", "w", "w">>, <<"m", "a", "i", "l">>, <<"s", "m", "t", "p">>,
     <<"f", "t", "p">>, <<"s", "s", "h">>}

\* Validation and get_active_identity, up to the availability request.
resolver_claim_validate(p) ==
    /\ pc[p] = "idle"
    /\ resolverCalls < MaxResolverCalls
    /\ \E h \in HandleInputs :
        LET handle == normalize_handle(h)
        IN  IF Len(handle) < 3 \/ Len(handle) > 20
            THEN /\ ret' = [ret EXCEPT ![p] = Return("resolver_claim", "InvalidHandle")]
                 /\ UNCHANGED <<pc, loc>>
            ELSE IF \E i \in 1..Len(handle) : handle[i] \notin HandleAlphabet
            THEN /\ ret' = [ret EXCEPT ![p] = Return("resolver_claim", "InvalidHandle")]
                 /\ UNCHANGED <<pc, loc>>
            ELSE IF handle \in record_RESERVED_HANDLES
            THEN /\ ret' = [ret EXCEPT ![p] = Return("resolver_claim", "HandleUnavailable")]
                 /\ UNCHANGED <<pc, loc>>
            ELSE IF activeIdentity = None
            THEN /\ ret' = [ret EXCEPT ![p] = Return("resolver_claim", "IdentityNotFound")]
                 /\ UNCHANGED <<pc, loc>>
            ELSE /\ loc' = [loc EXCEPT ![p] = [NoLocals EXCEPT !.handle = Some(handle),
                                                               !.my_pk = activeIdentity]]
                 /\ pc' = [pc EXCEPT ![p] = "resolver_available"]
                 /\ UNCHANGED ret
    /\ resolverCalls' = resolverCalls + 1
    /\ UNCHANGED <<config, activeIdentity, netClaimed>>
    /\ UNCHANGED <<pluginVars, verifyVars, appVars, merkleVars, pureVars, collectionVars, identityVars>>

\* is_handle_available answered false, or failed.
resolver_claim_unavailable(p) ==
    /\ pc[p] = "resolver_available"
    /\ \E status \in {"HandleUnavailable", "Network"} :
        ret' = [ret EXCEPT ![p] = [Return("resolver_claim", status) EXCEPT
                                      !.handle = loc[p].handle]]
    /\ pc' = [pc EXCEPT ![p] = "idle"]
    /\ loc' = [loc EXCEPT ![p] = NoLocals]
    /\ UNCHANGED <<pluginVars, verifyVars, appVars, merkleVars, resolverVars, pureVars, collectionVars, identityVars>>

\* is_handle_available answered true.
resolver_claim_available(p) ==
    /\ pc[p] = "resolver_available"
    /\ \A c \in netClaimed : c[1] /= Unwrap(loc[p].handle)
    /\ pc' = [pc EXCEPT ![p] = "resolver_read"]
    /\ UNCHANGED <<loc, ret>>
    /\ UNCHANGED <<pluginVars, verifyVars, appVars, merkleVars, resolverVars, pureVars, collectionVars, identityVars>>

\* The storage read and the trust requirements, up to the claim request.
resolver_claim_check(p) ==
    /\ pc[p] = "resolver_read"
    /\ storageLock.writer = None
    /\ LET identity == storage_get_identity(identities, Unwrap(loc[p].my_pk))
           fail(status) ==
               /\ ret' = [ret EXCEPT ![p] = [Return("resolver_claim", status) EXCEPT
                                                !.handle = loc[p].handle]]
               /\ pc' = [pc EXCEPT ![p] = "idle"]
               /\ loc' = [loc EXCEPT ![p] = NoLocals]
       IN  IF identity = None THEN fail("IdentityNotFound")
           ELSE IF Unwrap(identity).breadcrumb_count < config.min_breadcrumbs_for_handle
           THEN fail("InsufficientBreadcrumbs")
           ELSE IF Unwrap(identity).trust_score < config.min_trust_score_for_handle
           THEN fail("InsufficientTrust")
           ELSE /\ pc' = [pc EXCEPT ![p] = "resolver_submit"]
                /\ UNCHANGED <<loc, ret>>
    /\ UNCHANGED <<pluginVars, verifyVars, appVars, merkleVars, resolverVars, pureVars, collectionVars, identityVars>>

\* network.claim_handle succeeded: claim_handle returns Ok(()).
resolver_claim_net_ok(p) ==
    /\ pc[p] = "resolver_submit"
    /\ \A c \in netClaimed : c[1] = Unwrap(loc[p].handle) => c[2] = Unwrap(loc[p].my_pk)
    /\ netClaimed' = netClaimed \cup {<<Unwrap(loc[p].handle), Unwrap(loc[p].my_pk)>>}
    /\ ret' = [ret EXCEPT ![p] = [Return("resolver_claim", "ok") EXCEPT
                                     !.handle = loc[p].handle]]
    /\ pc' = [pc EXCEPT ![p] = "idle"]
    /\ loc' = [loc EXCEPT ![p] = NoLocals]
    /\ UNCHANGED <<config, activeIdentity, resolverCalls>>
    /\ UNCHANGED <<pluginVars, verifyVars, appVars, merkleVars, pureVars, collectionVars, identityVars>>

\* network.claim_handle failed.
resolver_claim_net_err(p) ==
    /\ pc[p] = "resolver_submit"
    /\ ret' = [ret EXCEPT ![p] = [Return("resolver_claim", "Network") EXCEPT
                                     !.handle = loc[p].handle]]
    /\ pc' = [pc EXCEPT ![p] = "idle"]
    /\ loc' = [loc EXCEPT ![p] = NoLocals]
    /\ UNCHANGED <<pluginVars, verifyVars, appVars, merkleVars, resolverVars, pureVars, collectionVars, identityVars>>

---------------------------------------------------------------------------
(* Plugin: commands::resolver::release_handle *)

\* get_active_identity, the secret key and the signature, up to the request.
resolver_release_sign(p) ==
    /\ pc[p] = "idle"
    /\ resolverCalls < MaxResolverCalls
    /\ storageLock.writer = None
    /\ \E h \in HandleInputs :
        IF activeIdentity = None
              \/ storage_get_identity(identities, Unwrap(activeIdentity)) = None
        THEN /\ ret' = [ret EXCEPT ![p] = Return("resolver_release", "IdentityNotFound")]
             /\ UNCHANGED <<pc, loc>>
        ELSE /\ loc' = [loc EXCEPT ![p] = [NoLocals EXCEPT
                                              !.handle = Some(normalize_handle(h)),
                                              !.my_pk = activeIdentity]]
             /\ pc' = [pc EXCEPT ![p] = "resolver_release"]
             /\ UNCHANGED ret
    /\ resolverCalls' = resolverCalls + 1
    /\ UNCHANGED <<config, activeIdentity, netClaimed>>
    /\ UNCHANGED <<pluginVars, verifyVars, appVars, merkleVars, pureVars, collectionVars, identityVars>>

\* network.release_handle succeeded.
resolver_release_net_ok(p) ==
    /\ pc[p] = "resolver_release"
    /\ <<Unwrap(loc[p].handle), Unwrap(loc[p].my_pk)>> \in netClaimed
    /\ netClaimed' = netClaimed \ {<<Unwrap(loc[p].handle), Unwrap(loc[p].my_pk)>>}
    /\ ret' = [ret EXCEPT ![p] = [Return("resolver_release", "ok") EXCEPT
                                     !.handle = loc[p].handle]]
    /\ pc' = [pc EXCEPT ![p] = "idle"]
    /\ loc' = [loc EXCEPT ![p] = NoLocals]
    /\ UNCHANGED <<config, activeIdentity, resolverCalls>>
    /\ UNCHANGED <<pluginVars, verifyVars, appVars, merkleVars, pureVars, collectionVars, identityVars>>

\* network.release_handle failed.
resolver_release_net_err(p) ==
    /\ pc[p] = "resolver_release"
    /\ ret' = [ret EXCEPT ![p] = [Return("resolver_release", "Network") EXCEPT
                                     !.handle = loc[p].handle]]
    /\ pc' = [pc EXCEPT ![p] = "idle"]
    /\ loc' = [loc EXCEPT ![p] = NoLocals]
    /\ UNCHANGED <<pluginVars, verifyVars, appVars, merkleVars, resolverVars, pureVars, collectionVars, identityVars>>

\* Numbers of breadcrumbs the active identity has stored at start.
ResolverStoredCounts == {0, 100}

InitResolver ==
    /\ \E n \in ResolverStoredCounts : PluginStart(n)
    /\ ProcStart
    /\ VerifyStart
    /\ AppStart
    /\ MerkleStart
    /\ \E c \in {DefaultConfig, DevelopmentConfig} : ResolverStart(c)
    /\ PureStart
    /\ CollectionStart
    /\ IdentityStart

NextResolver ==
    \E p \in Procs :
        \/ create_identity(p)
        \/ load_identity(p)
        \/ get_identity(p)
        \/ resolver_claim_validate(p)
        \/ resolver_claim_unavailable(p)
        \/ resolver_claim_available(p)
        \/ resolver_claim_check(p)
        \/ resolver_claim_net_ok(p)
        \/ resolver_claim_net_err(p)
        \/ resolver_release_sign(p)
        \/ resolver_release_net_ok(p)
        \/ resolver_release_net_err(p)

SpecResolver == InitResolver /\ [][NextResolver]_vars

---------------------------------------------------------------------------
(* commands::handles::canonical_json *)

\* serde_json::Value. A string is a sequence of characters; the members of
\* an object are its <<key, value>> pairs in the order its map iterates
\* them, and the members of an array are its elements, each under the key "".
JNull == [kind |-> "null", n |-> 0, s |-> <<>>, members |-> <<>>]
JBool(b) == [kind |-> "bool", n |-> IF b THEN 1 ELSE 0, s |-> <<>>, members |-> <<>>]
JInt(i) == [kind |-> "int", n |-> i, s |-> <<>>, members |-> <<>>]
\* A float, given in tenths.
JFloat(tenths) == [kind |-> "float", n |-> tenths, s |-> <<>>, members |-> <<>>]
JString(chars) == [kind |-> "string", n |-> 0, s |-> chars, members |-> <<>>]
JArray(elements) ==
    [kind |-> "array", n |-> 0, s |-> <<>>,
     members |-> [i \in 1..Len(elements) |-> <<"", elements[i]>>]]
JObject(pairs) == [kind |-> "object", n |-> 0, s |-> <<>>, members |-> pairs]

\* The keys used here, in the order String's Ord puts them.
KeyOrder == <<"a", "b", "c", "z">>

\* keys.sort() over the keys of an object.
sort_keys(members) ==
    SelectSeq(KeyOrder, LAMBDA k : \E i \in 1..Len(members) : members[i][1] = k)

\* obj[k]
get_member(members, k) ==
    members[CHOOSE i \in 1..Len(members) : members[i][1] = k][2]

\* [String]::join
RECURSIVE join(_, _)
join(items, sep) ==
    IF Len(items) = 0 THEN ""
    ELSE IF Len(items) = 1 THEN items[1]
    ELSE items[1] \o sep \o join(Tail(items), sep)

\* s.replace('\\', "\\\\").replace('"', "\\\"")
RECURSIVE escape(_)
escape(chars) ==
    IF Len(chars) = 0 THEN ""
    ELSE (IF chars[1] = "\\" THEN "\\\\"
          ELSE IF chars[1] = "\"" THEN "\\\""
          ELSE chars[1]) \o escape(Tail(chars))

\* An encoding that emits the members of an object as the map iterates them.
RECURSIVE canonical_json_unsorted(_)
canonical_json_unsorted(value) ==
    IF value.kind = "object"
    THEN LET kept == SelectSeq(value.members, LAMBDA m : m[2].kind /= "null")
         IN  "{" \o join([i \in 1..Len(kept) |->
                              "\"" \o kept[i][1] \o "\":" \o canonical_json_unsorted(kept[i][2])],
                         ",") \o "}"
    ELSE IF value.kind = "array"
    THEN "[" \o join([i \in 1..Len(value.members) |->
                         canonical_json_unsorted(value.members[i][2])], ",") \o "]"
    ELSE IF value.kind = "string" THEN "\"" \o escape(value.s) \o "\""
    ELSE IF value.kind = "null" THEN "null"
    ELSE ToString(value.n)

RECURSIVE canonical_json(_)
canonical_json(value) ==
    CASE value.kind = "null" -> "null"
      [] value.kind = "bool" -> IF value.n = 1 THEN "true" ELSE "false"
      [] value.kind = "int" -> ToString(value.n)
      [] value.kind = "float" ->
            IF value.n % 10 = 0 THEN ToString(value.n \div 10)
            ELSE ToString(value.n \div 10) \o "." \o ToString(value.n % 10)
      [] value.kind = "string" -> "\"" \o escape(value.s) \o "\""
      [] value.kind = "array" ->
            "[" \o join([i \in 1..Len(value.members) |->
                            canonical_json(value.members[i][2])], ",") \o "]"
      [] value.kind = "object" ->
            LET keys == sort_keys(value.members)
                kept == SelectSeq(keys,
                                  LAMBDA k : get_member(value.members, k).kind /= "null")
            IN  "{" \o join([i \in 1..Len(kept) |->
                                "\"" \o kept[i] \o "\":"
                                   \o canonical_json(get_member(value.members, kept[i]))],
                            ",") \o "}"

\* The largest number of members of the objects encoded.
MaxMembers == 3

\* The values a member holds.
MemberValues ==
    {JNull, JInt(1), JString(<<"x">>), JFloat(1000), JBool(TRUE),
     JObject(<<<<"z", JInt(2)>>, <<"a", JNull>>, <<"b", JString(<<"\"">>)>>>>),
     JArray(<<JNull, JObject(<<<<"b", JInt(1)>>, <<"a", JInt(0)>>>>)>>)}

\* The objects encoded: up to MaxMembers members under distinct keys, in
\* every order of insertion.
ObjectInputs ==
    {JObject(pairs) : pairs \in
        {q \in UNION {[1..k -> {"a", "b", "c"} \X MemberValues] : k \in 0..MaxMembers} :
            \A i, j \in 1..Len(q) : i /= j => q[i][1] /= q[j][1]}}

json_input ==
    /\ arg = None
    /\ \E v \in ObjectInputs : arg' = Some(v)
    /\ UNCHANGED <<result, procVars, pluginVars, verifyVars, appVars, merkleVars,
                   resolverVars, collectionVars, identityVars>>

json_run ==
    /\ IsSome(arg)
    /\ result = None
    /\ result' = Some(canonical_json(Unwrap(arg)))
    /\ UNCHANGED <<arg, procVars, pluginVars, verifyVars, appVars, merkleVars,
                   resolverVars, collectionVars, identityVars>>

InitJson ==
    /\ PluginStart(0)
    /\ ProcStart
    /\ VerifyStart
    /\ AppStart
    /\ MerkleStart
    /\ ResolverStart(DefaultConfig)
    /\ PureStart
    /\ CollectionStart
    /\ IdentityStart

NextJson == json_input \/ json_run

SpecJson == InitJson /\ [][NextJson]_vars

---------------------------------------------------------------------------
(* Plugin: commands::identity (import_identity, delete_identity) *)

\* The public keys a caller asks to delete.
DeletedKeys == {kp[1] : kp \in ImportKeyPairs}

\* StorageManager::save_identity: INSERT OR REPLACE, every column it does
\* not name taking its default.
save_identity(ids, kp) ==
    Append(SelectSeq(ids, LAMBDA r : r.public_key /= kp[1]), NewIdentityRow(kp, FALSE))

import_identity(p) ==
    /\ pc[p] = "idle"
    /\ CanWrite
    /\ identityCalls < MaxIdentityCalls
    /\ identityCalls' = identityCalls + 1
    /\ \E kp \in ImportKeyPairs :
        /\ identities' = save_identity(identities, kp)
        /\ ret' = [ret EXCEPT ![p] = [Return("import_identity", "ok") EXCEPT
                                         !.public_key = Some(kp[1])]]
    /\ UNCHANGED <<breadcrumbs, epochs, clock, nextId, storageLock, pc, loc,
                   relayEpochs, stored, appends, publishes>>
    /\ UNCHANGED <<verifyVars, appVars, merkleVars, resolverVars, pureVars, collectionVars>>

\* A delete that leaves the rows of the other tables in place.
delete_rows_identity_only(rows, public_key) == rows

\* DELETE FROM breadcrumbs / epochs WHERE identity_pk = ?1
delete_rows(rows, public_key) ==
    SelectSeq(rows, LAMBDA r : r.identity_pk /= public_key)

\* StorageManager::delete_identity ran to its end.
delete_identity(p) ==
    /\ pc[p] = "idle"
    /\ CanWrite
    /\ identityCalls < MaxIdentityCalls
    /\ identityCalls' = identityCalls + 1
    /\ \E public_key \in DeletedKeys :
        /\ breadcrumbs' = delete_rows(breadcrumbs, public_key)
        /\ epochs' = SelectSeq(epochs, LAMBDA r : r.identity /= public_key)
        /\ identities' = SelectSeq(identities, LAMBDA r : r.public_key /= public_key)
        /\ activeIdentity' = IF activeIdentity = Some(public_key) THEN None
                             ELSE activeIdentity
        /\ ret' = [ret EXCEPT ![p] = [Return("delete_identity", "ok") EXCEPT
                                         !.public_key = Some(public_key)]]
    /\ UNCHANGED <<clock, nextId, storageLock, pc, loc, relayEpochs, stored, appends,
                   publishes>>
    /\ UNCHANGED <<verifyVars, appVars, merkleVars, config, netClaimed, resolverCalls,
                   pureVars, collectionVars>>

\* One of the statements of StorageManager::delete_identity failed: the
\* statements before it have taken effect, and `?` returns the error.
delete_identity_failed(p) ==
    /\ pc[p] = "idle"
    /\ CanWrite
    /\ identityCalls < MaxIdentityCalls
    /\ identityCalls' = identityCalls + 1
    /\ \E public_key \in DeletedKeys, done \in 0..2 :
        /\ breadcrumbs' = IF done >= 1 THEN delete_rows(breadcrumbs, public_key)
                          ELSE breadcrumbs
        /\ epochs' = IF done >= 2 THEN SelectSeq(epochs, LAMBDA r : r.identity /= public_key)
                     ELSE epochs
        /\ ret' = [ret EXCEPT ![p] = [Return("delete_identity", "Storage") EXCEPT
                                         !.public_key = Some(public_key)]]
    /\ UNCHANGED <<identities, clock, nextId, storageLock, pc, loc, relayEpochs, stored,
                   appends, publishes>>
    /\ UNCHANGED <<verifyVars, appVars, merkleVars, resolverVars, pureVars, collectionVars>>

\* Numbers of breadcrumb rows on disk when the plugin starts.
StorageStoredCounts == {0, 98}

InitStorage ==
    /\ \E n \in StorageStoredCounts : PluginStart(n)
    /\ ProcStart
    /\ VerifyStart
    /\ AppStart
    /\ MerkleStart
    /\ ResolverStart(DefaultConfig)
    /\ PureStart
    /\ CollectionStart
    /\ IdentityStart

NextStorage ==
    \E p \in Procs :
        \/ create_identity(p)
        \/ import_identity(p)
        \/ delete_identity(p)
        \/ delete_identity_failed(p)
        \/ collect_lock(p)
        \/ collect_build(p)
        \/ collect_save(p)

SpecStorage == InitStorage /\ [][NextStorage]_vars

---------------------------------------------------------------------------
(* core::crypto::CryptoEngine::verify *)

ED25519_PUBLIC_KEY_SIZE == 32

ED25519_SIGNATURE_SIZE == 64

\* Result<T>: Ok(value) or Err(kind).
Ok(value) == [ok |-> TRUE, value |-> <<value>>, error |-> ""]
Err(kind) == [ok |-> FALSE, value |-> <<>>, error |-> kind]

HexDigits == {"0", "1", "2", "3", "4", "5", "6", "7", "8", "9",
              "a", "b", "c", "d", "e", "f", "A", "B", "C", "D", "E", "F"}

\* The text of n copies of the character c.
Repeat(c, n) == [i \in 1..n |-> c]

\* hex::decode followed by `?`: the bytes, each a pair of digits, or
\* Error::InvalidInput through From<hex::FromHexError>.
hex_decode(text) ==
    IF Len(text) % 2 /= 0 THEN Err("InvalidInput")
    ELSE IF \E i \in 1..Len(text) : text[i] \notin HexDigits THEN Err("InvalidInput")
    ELSE Ok([i \in 1..(Len(text) \div 2) |-> <<text[2 * i - 1], text[2 * i]>>])

\* The 32-byte strings that decompress to a point of the curve.
CurvePoints == {Repeat(<<"a", "a">>, ED25519_PUBLIC_KEY_SIZE)}

\* The signature the owner of the key produces for the message.
SignatureBytes(public_bytes, message) ==
    Repeat(<<"5", message>>, ED25519_SIGNATURE_SIZE)

\* VerifyingKey::from_bytes followed by `?`: Error::InvalidSignature through
\* From<ed25519_dalek::SignatureError>.
from_bytes(public_array) ==
    IF public_array \in CurvePoints THEN Ok(public_array) ELSE Err("InvalidSignature")

\* CryptoEngine::verify(public_key_hex, message, signature_hex)
verify(public_key_hex, message, signature_hex) ==
    LET public_bytes == hex_decode(public_key_hex)
        signature_bytes == hex_decode(signature_hex)
    IN  IF ~public_bytes.ok THEN public_bytes
        ELSE IF ~signature_bytes.ok THEN signature_bytes
        ELSE IF Len(Unwrap(public_bytes.value)) /= ED25519_PUBLIC_KEY_SIZE
        THEN Err("InvalidInput")
        ELSE IF Len(Unwrap(signature_bytes.value)) /= ED25519_SIGNATURE_SIZE
        THEN Err("InvalidInput")
        ELSE LET verifying_key == from_bytes(Unwrap(public_bytes.value))
             IN  IF ~verifying_key.ok THEN verifying_key
                 ELSE Ok(Unwrap(signature_bytes.value)
                           = SignatureBytes(Unwrap(verifying_key.value), message))

\* Messages, one digit each.
VerifyMessages == {"1", "2"}

\* Key texts: a key, a key one byte short, one of odd length, one that is not
\* hex, 32 bytes that are no curve point, and the empty text.
PublicKeyTexts ==
    {Repeat("a", 64), Repeat("a", 62), Repeat("a", 63), Repeat("z", 64),
     Repeat("f", 64), <<>>}

\* Signature texts: the signatures of the two messages, 64 bytes that are
\* no signature of either, and the malformed ones.
SignatureTexts ==
    {[i \in 1..128 |-> IF i % 2 = 1 THEN "5" ELSE "1"],
     [i \in 1..128 |-> IF i % 2 = 1 THEN "5" ELSE "2"],
     Repeat("0", 128), Repeat("0", 126), Repeat("0", 127), Repeat("z", 128), <<>>}

verify_signature_input ==
    /\ arg = None
    /\ \E k \in PublicKeyTexts, m \in VerifyMessages, g \in SignatureTexts :
          arg' = Some([public_key_hex |-> k, message |-> m, signature_hex |-> g])
    /\ UNCHANGED <<result, procVars, pluginVars, verifyVars, appVars, merkleVars,
                   resolverVars, collectionVars, identityVars>>

verify_signature_run ==
    /\ IsSome(arg)
    /\ result = None
    /\ result' = Some(verify(Unwrap(arg).public_key_hex, Unwrap(arg).message,
                             Unwrap(arg).signature_hex))
    /\ UNCHANGED <<arg, procVars, pluginVars, verifyVars, appVars, merkleVars,
                   resolverVars, collectionVars, identityVars>>

InitCrypto ==
    /\ PluginStart(0)
    /\ ProcStart
    /\ VerifyStart
    /\ AppStart
    /\ MerkleStart
    /\ ResolverStart(DefaultConfig)
    /\ PureStart
    /\ CollectionStart
    /\ IdentityStart

NextCrypto == verify_signature_input \/ verify_signature_run

SpecCrypto == InitCrypto /\ [][NextCrypto]_vars

---------------------------------------------------------------------------
(* error::Error *)

\* The variants of Error.
ErrorKinds ==
    {"Crypto", "Storage", "Network", "IdentityNotFound", "HandleNotFound",
     "HandleUnavailable", "InvalidHandle", "DecryptionFailed", "InvalidSignature",
     "InsufficientTrust", "InsufficientBreadcrumbs", "Config", "Serialization",
     "PermissionDenied", "InvalidInput", "Timeout", "Internal", "NotAvailable",
     "RateLimited"}

\* Messages an error carries.
ErrorMessages == {"timeout", "slow", "bad key"}

\* Error::is_recoverable
is_recoverable(self) == self.kind \in {"Network", "Timeout", "RateLimited"}

is_recoverable_input ==
    /\ arg = None
    /\ \E k \in ErrorKinds, m \in ErrorMessages : arg' = Some([kind |-> k, message |-> m])
    /\ UNCHANGED <<result, procVars, pluginVars, verifyVars, appVars, merkleVars,
                   resolverVars, collectionVars, identityVars>>

is_recoverable_run ==
    /\ IsSome(arg)
    /\ result = None
    /\ result' = Some(is_recoverable(Unwrap(arg)))
    /\ UNCHANGED <<arg, procVars, pluginVars, verifyVars, appVars, merkleVars,
                   resolverVars, collectionVars, identityVars>>

InitError ==
    /\ PluginStart(0)
    /\ ProcStart
    /\ VerifyStart
    /\ AppStart
    /\ MerkleStart
    /\ ResolverStart(DefaultConfig)
    /\ PureStart
    /\ CollectionStart
    /\ IdentityStart

NextError == is_recoverable_input \/ is_recoverable_run

SpecError == InitError /\ [][NextError]_vars

---------------------------------------------------------------------------
(* commands::trajectory::start_collection, stop_collection *)

\* COLLECTION_ACTIVE.load: an active collection fails the call.
start_collection_load(p) ==
    /\ pc[p] = "idle"
    /\ IF collectionActive
       THEN /\ ret' = [ret EXCEPT ![p] = Return("start_collection", "CollectionAlreadyActive")]
            /\ UNCHANGED pc
       ELSE /\ pc' = [pc EXCEPT ![p] = "start_loaded"]
            /\ UNCHANGED ret
    /\ UNCHANGED <<loc, collectionActive>>
    /\ UNCHANGED <<pluginVars, verifyVars, appVars, merkleVars, resolverVars, pureVars,
                   identityVars>>

\* state.storage.read().await returned: the identity check, then
\* COLLECTION_ACTIVE.store(true).
start_collection_store(p) ==
    /\ pc[p] = "start_loaded"
    /\ storageLock.writer = None
    /\ IF identities = <<>>
       THEN /\ ret' = [ret EXCEPT ![p] = Return("start_collection", "IdentityNotFound")]
            /\ pc' = [pc EXCEPT ![p] = "idle"]
            /\ UNCHANGED collectionActive
       ELSE /\ collectionActive' = TRUE
            /\ pc' = [pc EXCEPT ![p] = "start_stored"]
            /\ UNCHANGED ret
    /\ UNCHANGED loc
    /\ UNCHANGED <<pluginVars, verifyVars, appVars, merkleVars, resolverVars, pureVars,
                   identityVars>>

\* get_collection_status(state).await returned to start_collection.
start_collection_status(p) ==
    /\ pc[p] = "start_stored"
    /\ storageLock.writer = None
    /\ ret' = [ret EXCEPT ![p] = Return("start_collection", "ok")]
    /\ pc' = [pc EXCEPT ![p] = "idle"]
    /\ UNCHANGED <<loc, collectionActive>>
    /\ UNCHANGED <<pluginVars, verifyVars, appVars, merkleVars, resolverVars, pureVars,
                   identityVars>>

\* COLLECTION_ACTIVE.store(false)
stop_collection_store(p) ==
    /\ pc[p] = "idle"
    /\ collectionActive' = FALSE
    /\ pc' = [pc EXCEPT ![p] = "stop_stored"]
    /\ UNCHANGED <<ret, loc>>
    /\ UNCHANGED <<pluginVars, verifyVars, appVars, merkleVars, resolverVars, pureVars,
                   identityVars>>

\* get_collection_status(state).await returned to stop_collection.
stop_collection_status(p) ==
    /\ pc[p] = "stop_stored"
    /\ storageLock.writer = None
    /\ ret' = [ret EXCEPT ![p] = Return("stop_collection", "ok")]
    /\ pc' = [pc EXCEPT ![p] = "idle"]
    /\ UNCHANGED <<loc, collectionActive>>
    /\ UNCHANGED <<pluginVars, verifyVars, appVars, merkleVars, resolverVars, pureVars,
                   identityVars>>

InitCollection ==
    /\ \E n \in StorageStoredCounts : PluginStart(n)
    /\ ProcStart
    /\ VerifyStart
    /\ AppStart
    /\ MerkleStart
    /\ ResolverStart(DefaultConfig)
    /\ PureStart
    /\ CollectionStart
    /\ IdentityStart

NextCollection ==
    \E p \in Procs :
        \/ create_identity(p)
        \/ start_collection_load(p)
        \/ start_collection_store(p)
        \/ start_collection_status(p)
        \/ stop_collection_store(p)
        \/ stop_collection_status(p)

SpecCollection == InitCollection /\ [][NextCollection]_vars

---------------------------------------------------------------------------
(* Views of the state the properties are stated over *)

\* The chain of an identity: its rows, oldest first.
ChainOf(pk) == SelectSeq(breadcrumbs, LAMBDA b : b.identity_pk = pk)

\* Positions of the rows appended since the plugin started.
AppendedRows == (stored + 1)..Len(breadcrumbs)

\* unpublished(identity).count
UnpublishedCount(pk) ==
    Cardinality({i \in 1..Len(breadcrumbs) :
                    breadcrumbs[i].identity_pk = pk /\ ~breadcrumbs[i].published})

InCollect(p) == pc[p] \in {"collect_locked", "collect_built"}

ReturnedOk(p, op) == ret[p].op = op /\ ret[p].status = "ok"

---------------------------------------------------------------------------
(* C1 *)

\* C1: after any sequence of successful appends, the first breadcrumb of the
\* chain has no predecessor (None or the genesis sentinel) and every later
\* breadcrumb's prev_hash is the hash of the breadcrumb appended just before.
C1_ChainLinked ==
    \A i \in AppendedRows :
        IF i = 1
        THEN breadcrumbs[i].prev_hash \in {None, Some("genesis")}
        ELSE breadcrumbs[i].prev_hash = Some(breadcrumbs[i - 1].hash)

---------------------------------------------------------------------------
(* C2 *)

\* C2: appends are serialized (no two invocations are between the read of
\* the head and the write of the row at once), so no two breadcrumbs of an
\* identity claim the same predecessor.
C2_SerializedNoSharedPredecessor ==
    /\ \A p, q \in Procs : InCollect(p) /\ InCollect(q) => p = q
    /\ \A i, j \in AppendedRows :
          /\ i /= j
          /\ breadcrumbs[i].identity_pk = breadcrumbs[j].identity_pk
          => breadcrumbs[i].prev_hash /= breadcrumbs[j].prev_hash

---------------------------------------------------------------------------
(* C3 *)

\* Element i of seq passes the three checks, stated on its fields.
ElementSound(seq, i) ==
    /\ seq[i].hash = Sha256(seq[i].h3_index \o seq[i].timestamp \o
                            (IF seq[i].prev_hash = None THEN "" ELSE seq[i].prev_hash[1]))
    /\ seq[i].prev_hash = (IF i = 1 THEN None ELSE Some(seq[i - 1].hash))
    /\ seq[i].signature = Sign("sk1", seq[i].hash)

UnsoundElements(seq) == {i \in 1..Len(seq) : ~ElementSound(seq, i)}

\* C3: verify_chain succeeds exactly when every element's hash is the
\* recomputation from its own fields, its prev_hash links to its
\* predecessor's hash and its signature verifies; otherwise it reports the
\* index of the first element that fails one of these checks.
C3_VerifyChainExact ==
    verdict /= NoVerdict
    => IF UnsoundElements(chain) = {}
       THEN verdict = [status |-> "ok", index |-> None]
       ELSE /\ verdict.status = "invalid"
            /\ verdict.index =
                 Some((CHOOSE i \in UnsoundElements(chain) :
                          \A j \in UnsoundElements(chain) : i <= j) - 1)

\* A three-element sequence whose second element had its cell changed after
\* creation was rejected at index 1.
C3_Witness ==
    /\ Len(chain) = 3
    /\ chain[2].h3_index = "87ffffffff"
    /\ ElementSound(chain, 1)
    /\ verdict = [status |-> "invalid", index |-> Some(1)]

---------------------------------------------------------------------------
(* C4 *)

\* C4: every breadcrumb that append creates stores the hash that
\* Breadcrumb::calculate_hash recomputes from its stored fields, so
\* verify_hash accepts it.
C4_StoredHashRecomputes ==
    \A i \in AppendedRows : verify_hash(breadcrumbs[i])

---------------------------------------------------------------------------
(* C5 *)

\* C5: a publish that has found its identity fails with
\* InsufficientBreadcrumbs whenever the identity has fewer unpublished
\* breadcrumbs than the minimum, and builds an epoch only when it has at
\* least the minimum.
C5_PublishGate ==
    [][\A p \in Procs :
          /\ pc[p] = "publish_locked"
          /\ pc'[p] /= "publish_locked"
          /\ IsSome(ActiveIdentity(identities))
          => LET n == UnpublishedCount(Unwrap(ActiveIdentity(identities)).public_key)
             IN  /\ n < default_min_breadcrumbs_for_epoch
                      => /\ pc'[p] = "idle"
                         /\ ret'[p] = Return("publish_epoch", "InsufficientBreadcrumbs")
                 /\ n >= default_min_breadcrumbs_for_epoch
                      => /\ pc'[p] = "publish_net"
                         /\ IsSome(loc'[p].epoch)]_vars

\* Both sides of the gate happen: one publish was refused one breadcrumb
\* short of the minimum while another built an epoch at the minimum.
C5_Witness ==
    \E p, q \in Procs :
        /\ ret[p] = Return("publish_epoch", "InsufficientBreadcrumbs")
        /\ pc[q] = "publish_net"
        /\ Len(breadcrumbs) = default_min_breadcrumbs_for_epoch

---------------------------------------------------------------------------
(* C6 *)

\* C6: the epochs of an identity carry the indices 0, 1, 2, ... in creation
\* order, the first has prev_epoch_hash None and every later one names the
\* epoch_hash of the epoch published just before it.
C6_EpochChain ==
    \A i \in 1..Len(relayEpochs) :
        /\ relayEpochs[i].epoch_index = i - 1
        /\ IF i = 1
           THEN relayEpochs[i].prev_epoch_hash = None
           ELSE relayEpochs[i].prev_epoch_hash = Some(relayEpochs[i - 1].epoch_hash)

---------------------------------------------------------------------------
(* C7 *)

\* The epoch an invocation of publish_epoch has built and signed.
BuiltEpoch(p) ==
    IF pc[p] = "publish_net" THEN loc[p].epoch
    ELSE IF ret[p].op = "publish_epoch" THEN ret[p].epoch ELSE None

\* C7: once publish has built and signed an epoch, the epoch is persisted
\* locally and the breadcrumbs it consumed are marked published, also when
\* the submission to the network fails.
C7_MarkedAndPersisted ==
    \A p \in Procs :
        IsSome(BuiltEpoch(p))
        => /\ \E i \in 1..Len(epochs) :
                 epochs[i].epoch_hash = Unwrap(BuiltEpoch(p)).epoch_hash
           /\ \E i \in 1..Len(breadcrumbs) : breadcrumbs[i].published

---------------------------------------------------------------------------
(* C8 *)

\* C8: publishing with exactly 250 unpublished breadcrumbs and no earlier
\* epoch yields epoch 0 with prev_epoch_hash None and 10 blocks over the 100
\* oldest breadcrumbs, which are marked published; the other 150 stay
\* unpublished.
C8_Publish250 ==
    \A p \in Procs :
        /\ ReturnedOk(p, "publish_epoch")
        /\ Len(breadcrumbs) = 250
        /\ Len(relayEpochs) = 1
        => /\ ret[p].epoch[1].epoch_index = 0
           /\ ret[p].epoch[1].prev_epoch_hash = None
           /\ ret[p].epoch[1].block_count = 10
           /\ \A i \in 1..100 : breadcrumbs[i].published
           /\ \A i \in 101..250 : ~breadcrumbs[i].published

---------------------------------------------------------------------------
(* C9 *)

\* epochIndex the next publish would assign.
NextEpochIndex ==
    IF IsSome(ActiveIdentity(identities))
    THEN get_breadcrumb_count(breadcrumbs, Unwrap(ActiveIdentity(identities)).public_key)
            \div default_min_breadcrumbs_for_epoch
    ELSE 0

\* C9: a publish that returns an error before the network submission has
\* changed no local state: no row of breadcrumbs, epochs or identities
\* differs, and the next epoch index and previous epoch hash are as before.
C9_FailedPublishChangesNothing ==
    [][\A p \in Procs :
          /\ pc[p] = "publish_locked"
          /\ pc'[p] = "idle"
          => /\ ret'[p].status \in {"IdentityNotFound", "InsufficientBreadcrumbs"}
             /\ breadcrumbs' = breadcrumbs
             /\ epochs' = epochs
             /\ identities' = identities
             /\ relayEpochs' = relayEpochs
             /\ NextEpochIndex' = NextEpochIndex]_vars

\* A publish was refused for want of breadcrumbs while the chain was not empty.
C9_Witness ==
    \E p \in Procs :
        /\ ret[p] = Return("publish_epoch", "InsufficientBreadcrumbs")
        /\ pc[p] = "idle"
        /\ Len(breadcrumbs) > stored

---------------------------------------------------------------------------
(* C10 *)

\* C10: the local state change of an operation is complete before its
\* network call is attempted: while reserve_handle waits for the network
\* the reservation is already recorded locally, and while publish_epoch
\* waits for the relay the epoch is already persisted.
C10_LocalBeforeNetwork ==
    \A p \in Procs :
        /\ pc[p] = "reserve_net" => cachedHandle = loc[p].handle
        /\ pc[p] = "publish_net"
             => \E i \in 1..Len(epochs) :
                   epochs[i].epoch_hash = Unwrap(loc[p].epoch).epoch_hash

---------------------------------------------------------------------------
(* C11 *)

\* combine(a, b) = hash(a || b)
Combine(a, b) == Sha256(a \o b)

\* One level of the tree: adjacent pairs combined, an unpaired last node
\* combined with itself.
PairedLevel(nodes) ==
    [k \in 1..((Len(nodes) + 1) \div 2) |->
        IF 2 * k <= Len(nodes)
        THEN Combine(nodes[2 * k - 1], nodes[2 * k])
        ELSE Combine(nodes[2 * k - 1], nodes[2 * k - 1])]

\* The root of the tree over the nodes, bottom-up.
RECURSIVE PairedRoot(_)
PairedRoot(nodes) ==
    IF Len(nodes) = 1 THEN nodes[1] ELSE PairedRoot(PairedLevel(nodes))

\* The roots of the blocks of BlockDivisor breadcrumbs over the first n rows.
BlockRoots(rows, n) ==
    [k \in 1..((n + BlockDivisor - 1) \div BlockDivisor) |->
        PairedRoot([j \in 1..(IF k * BlockDivisor <= n THEN BlockDivisor
                              ELSE n - (k - 1) * BlockDivisor) |->
                       rows[(k - 1) * BlockDivisor + j].hash])]

\* C11: the merkle_root of an epoch the relay accepted is the Merkle root
\* over the block roots of the breadcrumbs the epoch consumes (the oldest
\* min_breadcrumbs_for_epoch unpublished ones), and its start_time and
\* end_time are the timestamps of the first and the last of them.
C11_EpochRootAndTimes ==
    \A i \in 1..Len(relayEpochs) :
        LET e == relayEpochs[i]
            consumed == ChainOf(e.identity)
            n == default_min_breadcrumbs_for_epoch
        IN  /\ e.start_time = consumed[1].timestamp
            /\ e.end_time = consumed[n].timestamp
            /\ e.merkle_root = PairedRoot(BlockRoots(consumed, n))

---------------------------------------------------------------------------
(* C12 *)

\* C12: the root calculate_merkle_root returns for a non-empty slice is
\* computed bottom-up with combine(a, b) = hash(a || b) on adjacent pairs,
\* an unpaired last node being combined with itself; for three hashes it
\* is combine(combine(a, b), combine(c, c)).
C12_MerkleCombineRule ==
    IsSome(root) /\ Len(leaves) > 0
    => Unwrap(root) = PairedRoot([i \in 1..Len(leaves) |-> leaves[i].hash])

---------------------------------------------------------------------------
(* C13 *)

---------------------------------------------------------------------------
(* C14 *)

\* The requested handle equals the reserved one, compared without case
\* after the leading markers are stripped.
SameHandle(requested, reserved) ==
    to_lowercase(trim_start_matches(requested)) = to_lowercase(trim_start_matches(reserved))

\* The desktop claim_handle gets past its first step only if an identity
\* exists, a handle is reserved and the requested handle equals it; otherwise
\* it returns an error and changes no state.
DesktopClaimNeedsMatchingReservation ==
    [][\A p \in Procs :
          /\ pc[p] = "idle" /\ pc'[p] = "claim_matched"
               => /\ hasIdentity
                  /\ IsSome(cachedHandle)
                  /\ SameHandle(Unwrap(loc'[p].requested), Unwrap(cachedHandle))
                  /\ loc'[p].handle = cachedHandle
          /\ (pc[p] = "idle" /\ pc'[p] = "idle" /\ ret'[p] /= ret[p]
                /\ ret'[p].op = "claim_handle")
               => /\ ret'[p].status \in {"NoIdentity", "NoHandleReserved", "HandleMismatch"}
                  /\ UNCHANGED <<hasIdentity, cachedHandle, netReserved, dbCount>>]_vars

\* The handle the identity row of public_key holds.
IdentityHandle(ids, public_key) ==
    IF IsSome(storage_get_identity(ids, public_key))
    THEN Unwrap(storage_get_identity(ids, public_key)).handle
    ELSE None

\* C14: a claim is submitted to the network only for an identity that holds
\* a reservation of the requested handle (compared without case after
\* stripping the leading marker); in any other state the claim fails without
\* being submitted.
C14_ClaimNeedsMatchingReservation ==
    [][\A p \in Procs :
          (pc[p] /= "resolver_submit" /\ pc'[p] = "resolver_submit")
            => /\ IsSome(IdentityHandle(identities, Unwrap(loc'[p].my_pk)))
               /\ SameHandle(Unwrap(loc'[p].handle),
                             Unwrap(IdentityHandle(identities, Unwrap(loc'[p].my_pk))))]_vars

---------------------------------------------------------------------------
(* C15 *)

\* The moves of the handle workflow.
WorkflowMoves == {<<"None", "Reserved">>, <<"Reserved", "Claimed">>, <<"Reserved", "None">>}

\* The desktop handle status only makes moves of the workflow.
DesktopHandleWorkflow ==
    [][handle_status(cachedHandle') /= handle_status(cachedHandle)
       => <<handle_status(cachedHandle), handle_status(cachedHandle')>> \in WorkflowMoves]_vars

\* The handle state of an identity of the plugin: Claimed once the network
\* accepted a claim of it, Reserved while its row holds a handle.
ResolverHandleState(ids, claimed, public_key) ==
    IF \E c \in claimed : c[2] = public_key THEN "Claimed"
    ELSE IF IsSome(IdentityHandle(ids, public_key)) THEN "Reserved"
    ELSE "None"

\* C15: the handle state of an identity only moves None -> Reserved,
\* Reserved -> Claimed and Reserved -> None; Claimed is never entered from
\* None and is never left.
C15_HandleWorkflow ==
    [][\A pk \in PublicKeys :
          ResolverHandleState(identities', netClaimed', pk)
                /= ResolverHandleState(identities, netClaimed, pk)
            => <<ResolverHandleState(identities, netClaimed, pk),
                 ResolverHandleState(identities', netClaimed', pk)>> \in WorkflowMoves]_vars

---------------------------------------------------------------------------
(* C16 *)

\* C16: when the network accepts a claim, the identity's cached handle
\* becomes the claimed handle, so that a later read of the identity reports
\* it.
C16_AcceptedClaimIsRecorded ==
    [][\A p \in Procs :
          (pc[p] = "resolver_submit" /\ pc'[p] = "idle" /\ ret'[p].status = "ok")
            => IdentityHandle(identities', Unwrap(loc[p].my_pk)) = loc[p].handle]_vars

---------------------------------------------------------------------------
(* C17 *)

\* C17: reserve_handle with a well-formed handle leaves the reservation
\* recorded locally also when the network call fails, and a status read
\* reports a reservation as network-confirmed only if the network
\* acknowledged it.
C17_ReserveOfflineFirst ==
    [][\A p \in Procs :
          /\ (pc[p] = "reserve_net" /\ pc'[p] = "idle" /\ ret'[p].status = "NetworkError")
               => cachedHandle' = loc[p].handle
          /\ (pc[p] = "idle" /\ ret'[p] /= ret[p] /\ ret'[p].op = "get_identity_info"
                /\ ret'[p].network_reserved)
               => Unwrap(ret'[p].handle) \in netReserved]_vars

---------------------------------------------------------------------------
(* C18 *)

\* A get_trust_score call of p returns a score in this step.
TrustScoreReturned(p) ==
    /\ ret'[p] /= ret[p]
    /\ ret'[p].op = "get_trust_score"
    /\ ret'[p].status = "ok"

\* Verification of the stored chain of pk passes end to end: every row's
\* hash recomputes, its signature verifies and it links to the row before.
ChainVerifies(pk) ==
    LET c == ChainOf(pk)
    IN  \A i \in 1..Len(c) :
            /\ verify_hash(c[i])
            /\ Verify(pk, c[i].hash, c[i].signature)
            /\ IF i = 1 THEN c[i].prev_hash \in {None, Some("genesis")}
               ELSE c[i].prev_hash = Some(c[i - 1].hash)

\* C18: the chain_integrity component of a returned trust score is 100 when
\* verification of the identity's stored chain passes end to end, and 0 when
\* any hash, link or signature of the chain is invalid.
C18_ChainIntegrityReflectsChain ==
    [][\A p \in Procs :
          TrustScoreReturned(p)
            => Unwrap(ret'[p].score).components.chain_integrity
                 = IF ChainVerifies(Unwrap(ActiveIdentity(identities)).public_key)
                   THEN 100 * Scale ELSE 0]_vars

---------------------------------------------------------------------------
(* C19 *)

\* The score computed afresh from the chain of the identity as stored now.
FreshScore(identity) ==
    TrustScoreOf([identity EXCEPT !.breadcrumb_count = Len(ChainOf(identity.public_key)),
                                  !.trust_score = 0])

---------------------------------------------------------------------------
(* C20 *)

\* The weighted sum of five component scores, in score units.
WeightedSum(c) ==
    25 * c.trajectory_quality + 20 * c.temporal_consistency + 25 * c.chain_integrity
      + 15 * c.epoch_reliability + 15 * c.geographic_diversity

FullScore == 100 * Scale * WeightScale

\* C20: every trust score returned lies within [0, 100] and is the weighted
\* sum of its five component scores, clamped to that range.
C20_ScoreInRange ==
    \A p \in Procs :
        (ret[p].op = "get_trust_score" /\ ret[p].status = "ok")
          => LET t == Unwrap(ret[p].score)
             IN  /\ 0 <= t.score
                 /\ t.score <= FullScore
                 /\ t.score = IF WeightedSum(t.components) < 0 THEN 0
                              ELSE IF WeightedSum(t.components) > FullScore THEN FullScore
                              ELSE WeightedSum(t.components)

\* A trust score was returned for an identity with exactly 100 breadcrumbs,
\* where every component contributes.
C20_Witness ==
    \E p \in Procs :
        /\ ret[p].op = "get_trust_score"
        /\ ret[p].status = "ok"
        /\ Unwrap(ret[p].score).breadcrumb_count = 100
        /\ Unwrap(ret[p].score).components.epoch_reliability = 80 * Scale
        /\ Unwrap(ret[p].score).score > 0
        /\ Unwrap(ret[p].score).score < FullScore

---------------------------------------------------------------------------
(* C21 *)

\* The epochs of pk the relay acknowledged, together with those stored.
PublishedEpochs(pk) ==
    {i \in 1..Len(relayEpochs) : relayEpochs[i].identity = pk}
      \cup {Len(relayEpochs) + i : i \in {j \in 1..Len(epochs) : epochs[j].identity = pk}}

\* C21: the epoch_reliability component of a returned trust score is 80
\* when the identity has at least one published epoch and 0 otherwise,
\* whatever the number of its breadcrumbs.
C21_EpochReliabilityFromEpochs ==
    [][\A p \in Procs :
          TrustScoreReturned(p)
            => Unwrap(ret'[p].score).components.epoch_reliability
                 = IF PublishedEpochs(Unwrap(ActiveIdentity(identities)).public_key) /= {}
                   THEN 80 * Scale ELSE 0]_vars

---------------------------------------------------------------------------
(* C22 *)

\* The same logical value with the members of every object in the opposite
\* order.
RECURSIVE Reversed(_)
Reversed(v) ==
    IF v.kind = "object"
    THEN [v EXCEPT !.members = [i \in 1..Len(v.members) |->
             <<v.members[Len(v.members) + 1 - i][1],
               Reversed(v.members[Len(v.members) + 1 - i][2])>>]]
    ELSE IF v.kind = "array"
    THEN [v EXCEPT !.members = [i \in 1..Len(v.members) |->
             <<"", Reversed(v.members[i][2])>>]]
    ELSE v

\* The same logical value without the null-valued keys of its objects.
RECURSIVE Stripped(_)
Stripped(v) ==
    IF v.kind = "object"
    THEN LET kept == SelectSeq(v.members, LAMBDA m : m[2].kind /= "null")
         IN  [v EXCEPT !.members = [i \in 1..Len(kept) |->
                                       <<kept[i][1], Stripped(kept[i][2])>>]]
    ELSE IF v.kind = "array"
    THEN [v EXCEPT !.members = [i \in 1..Len(v.members) |->
             <<"", Stripped(v.members[i][2])>>]]
    ELSE v

\* {"b":1,"a":null,"c":"x"}
ExampleObject == JObject(<<<<"b", JInt(1)>>, <<"a", JNull>>, <<"c", JString(<<"x">>)>>>>)

\* {"c":{"z":2,"a":null,"b":"\""},"a":[null,{"b":1,"a":0}]}
NestedExample ==
    JObject(<<<<"c", JObject(<<<<"z", JInt(2)>>, <<"a", JNull>>,
                               <<"b", JString(<<"\"">>)>>>>)>>,
              <<"a", JArray(<<JNull, JObject(<<<<"b", JInt(1)>>, <<"a", JInt(0)>>>>)>>)>>>>)

\* C22: the canonical JSON of an object depends only on its logical value:
\* keys come out in lexicographic order at every level, null-valued keys are
\* left out and arrays keep their order, so the same non-null pairs inserted
\* in another order, with or without null-valued keys, give the same text;
\* {"b":1,"a":null,"c":"x"} gives {"b":1,"c":"x"}.
C22_CanonicalJson ==
    IsSome(result)
      => /\ canonical_json(Reversed(Unwrap(arg))) = Unwrap(result)
         /\ canonical_json(Stripped(Unwrap(arg))) = Unwrap(result)
         /\ Unwrap(arg) = ExampleObject => Unwrap(result) = "{\"b\":1,\"c\":\"x\"}"
         /\ Unwrap(arg) = NestedExample
              => Unwrap(result) = "{\"a\":[null,{\"a\":0,\"b\":1}],\"c\":{\"b\":\"\\\"\",\"z\":2}}"

\* canonical_json returned the text of {"b":1,"a":null,"c":"x"}.
C22_Witness ==
    /\ arg = Some(ExampleObject)
    /\ result = Some("{\"b\":1,\"c\":\"x\"}")

---------------------------------------------------------------------------
(* C23 *)

\* C23: after delete_identity returned Ok for a public key, storage holds no
\* identity row, no breadcrumb and no epoch of that key.
C23_DeleteRemovesChainAndEpochs ==
    [][\A p \in Procs :
          delete_identity(p)
            => LET pk == Unwrap(ret'[p].public_key)
               IN  /\ \A i \in 1..Len(identities') : identities'[i].public_key /= pk
                   /\ \A i \in 1..Len(breadcrumbs') : breadcrumbs'[i].identity_pk /= pk
                   /\ \A i \in 1..Len(epochs') : epochs'[i].identity /= pk]_vars

\* An identity that had a chain on disk was deleted, and nothing of it is
\* left.
C23_Witness ==
    /\ stored > 0
    /\ \E p \in Procs :
          /\ ReturnedOk(p, "delete_identity")
          /\ ret[p].public_key = Some("pk1")
    /\ ChainOf("pk1") = <<>>
    /\ \A i \in 1..Len(identities) : identities[i].public_key /= "pk1"

---------------------------------------------------------------------------
(* C29 *)

\* C29: for every identity row, the breadcrumb_count column equals the number
\* of breadcrumb rows stored for that identity, whatever save_identity,
\* save_breadcrumb and delete_identity operations ran, failed ones included.
C29_CachedCountMatchesRows ==
    \A i \in 1..Len(identities) :
        identities[i].breadcrumb_count
          = get_breadcrumb_count(breadcrumbs, identities[i].public_key)

---------------------------------------------------------------------------
(* C24 *)

IsHexText(text) ==
    Len(text) % 2 = 0 /\ \A i \in 1..Len(text) : text[i] \in HexDigits

\* The input is malformed: text that is not hex, a key or a signature of the
\* wrong length, or key bytes that are no valid public key.
MalformedInput(a) ==
    \/ ~IsHexText(a.public_key_hex)
    \/ ~IsHexText(a.signature_hex)
    \/ Len(a.public_key_hex) /= 2 * ED25519_PUBLIC_KEY_SIZE
    \/ Len(a.signature_hex) /= 2 * ED25519_SIGNATURE_SIZE
    \/ Unwrap(hex_decode(a.public_key_hex).value) \notin CurvePoints

\* C24: for every malformed input verify returns Ok(false) and never an
\* error.
C24_VerifyFalseOnMalformed ==
    (IsSome(result) /\ MalformedInput(Unwrap(arg))) => Unwrap(result) = Ok(FALSE)

---------------------------------------------------------------------------
(* C25 *)

\* C25: an error is classified as retryable exactly when it is a network
\* error or a timeout; every other kind is not retryable.
C25_OnlyNetworkAndTimeoutRetryable ==
    IsSome(result)
      => (Unwrap(result) <=> Unwrap(arg).kind \in {"Network", "Timeout"})

---------------------------------------------------------------------------
(* C26 *)

\* C26: while a publish_epoch invocation waits on the network it holds no
\* lock on the storage, so a collect_breadcrumb for the identity can take
\* the lock and run to completion in the meantime.
C26_NoLockDuringSubmission ==
    \A p \in Procs :
        pc[p] = "publish_net" => storageLock.writer /= Some(p) /\ CanWrite

---------------------------------------------------------------------------
(* C27 *)

\* C27: get_breadcrumb_status reports handle_claimed = true only for a
\* handle the network accepted a claim of; a handle that is only reserved
\* (cached) is never reported as claimed, whatever the breadcrumb count.
C27_ClaimedOnlyWhenClaimedOnNetwork ==
    \A p \in Procs :
        (ret[p].op = "get_breadcrumb_status" /\ ret[p].handle_claimed)
          => \E c \in netClaimed : Some(c[1]) = ret[p].handle

---------------------------------------------------------------------------
(* C30 *)

\* C30: create_identity_with_handle generates a new identity only when none
\* exists, also when calls overlap: no invocation reaches generate_new once
\* another has generated an identity.
C30_GeneratesOnlyWithoutIdentity ==
    [][\A p \in Procs :
          (pc[p] = "create_generate" /\ pc'[p] = "create_reserve") => ~hasIdentity]_vars

---------------------------------------------------------------------------
(* C28 *)

\* C28: collection is started at most once: a start_collection call made
\* while collection is active fails with "Collection already active", and a
\* call sets collection active only when it is inactive, so of the calls
\* that overlap at most one succeeds.
C28_StartedAtMostOnce ==
    [][\A p \in Procs :
          /\ (pc[p] = "idle" /\ pc'[p] = "start_loaded") => ~collectionActive
          /\ (pc[p] = "start_loaded" /\ pc'[p] = "start_stored") => ~collectionActive]_vars

=============================================================================
